---- MODULE Spec2Model ----
(***************************************************************************)
(* Tracking session engine of jrodrigopuca/tracking.                       *)
(*                                                                         *)
(* The session is held by UIController (ui/UIController.js): the current   *)
(* Route, the flags isTrackingActive / isPaused and the two time fields    *)
(* trackingStartTime / pausedTimeAccumulated.  Position fixes come from    *)
(* GeoLocationService (a geolocation watch) or from GeoSimulator (an       *)
(* interval timer); both reach the controller through the EventBus topic   *)
(* location:updated.  EventBus.emit is synchronous, so a handler runs      *)
(* inside the operation that emits: every operation below is a function    *)
(* from the state record to the state record, composed as the code calls.  *)
(*                                                                         *)
(* Time is counted in clock steps (now); a point keeps the step at which   *)
(* it was recorded.  stopped, fromIdle and activeTotal are history         *)
(* variables: they record what happened to the current session (the        *)
(* current Route object) and are read by no operation.  The async tails of *)
(* #onTrackingStarted / #onTrackingStopped (wake lock, notifications) do   *)
(* not touch the session fields and are followed in WakeSpec only.        *)
(*                                                                         *)
(* Nine specifications share the variables.  Spec is one page of the       *)
(* application.  SnapSpec follows the pending-route snapshot in            *)
(* localStorage across page loads.  BusSpec is the EventBus object with    *)
(* arbitrary callbacks.  LegacySpec is the legacy tracker script with its  *)
(* path of unique points and its stored distance.  WaySpec is a page with  *)
(* the modal through which waypoints are added.  StoreSpec is a            *)
(* StorageService on one localStorage item.  SimSpec is one GeoSimulator   *)
(* object with the interval timers it creates.  SourceSpec is a            *)
(* GeoSimulator beside a GeoLocationService.  WakeSpec is a page over the  *)
(* GPS watch with its WakeLockService and the promises it awaits.          *)
(***************************************************************************)
EXTENDS Integers, Sequences, FiniteSets, TLC

\* ------------------------------------------------------------------ bounds
MaxTime == 4
MaxPoints == 2
MaxOrphans == 1
MaxPageLoads == 1
MaxSnapTime == 2
MaxUuids == 1
MaxListeners == 2
MaxOnce == 1
MaxGrown == 3
MaxWatches == 1
MaxSaved == 1
MaxLegacySpan == 2

MaxStored == 2

MaxTimers == 3

MaxSentinels == 2
MaxReleases == 2

\* Names typed into the waypoint dialog.
WaypointNames == { "", " ", "cima" }

\* Coordinates a position source may report (lat, lng pairs).
Positions == { [lat |-> 0, lng |-> 0], [lat |-> 0, lng |-> 1] }

NoRoute == [none |-> TRUE]

\* localStorage.getItem(key) of a key that is not set.
NoItem == [item |-> "null"]

VARIABLES
    now,                    \* Date.now()
    simulationMode,         \* UIController.#simulationMode (?simulate=true)
    autoStartPending,       \* the setTimeout of #checkSimulationMode is pending
    geoSupported,           \* "geolocation" in navigator
    currentRoute,           \* UIController.#currentRoute
    isTrackingActive,       \* UIController.#isTrackingActive
    isPaused,               \* UIController.#isPaused
    trackingStartTime,      \* UIController.#trackingStartTime
    pausedTimeAccumulated,  \* UIController.#pausedTimeAccumulated
    timerInterval,          \* UIController.#timerInterval is set
    elapsedTimeDisplay,     \* elapsed value last written by #updateElapsedTime
    simulator,              \* UIController.#simulator and its #intervalId
    orphanTimers,           \* live interval timers of simulators no longer referenced
    watchId,                \* GeoLocationService.#watchId is set
    geoIsTracking,          \* GeoLocationService.#isTracking
    emitted,                \* events emitted on the EventBus by the last operation
    lastOp,                 \* the last operation performed
    stopped,                \* the current session has received tracking:stopped
    fromIdle,               \* the current session was created while nothing was tracking
    activeTotal,            \* wall-clock time the current session has spent Active
    search,                 \* window.location.search: the resume and simulate parameters
    pendingRoute,           \* localStorage item "tracking_pending_route"
    uuids,                  \* identifiers handed out by generateId() so far
    pageLoads,              \* page loads after the first one
    errors,                 \* console.error messages of the last operation
    uncaught,               \* an exception escaped the last operation
    recovery,               \* the branch #checkForPendingRoute took on this page
    waypointModal,          \* the waypoint modal is displayed
    waypointNameInput,      \* the text in the name field of the waypoint modal
    events,                 \* EventBus.events: the callbacks of each event
    wrappers,               \* wrapper functions created by EventBus.once so far
    invoked,                \* callbacks invoked by the last EventBus.emit, in order
    onceCalled,             \* once-wrappers that have been invoked
    path,                   \* legacy tracker: the points of the path
    distance,               \* legacy tracker: the distance shown for the path
    lastAddedPointTime,     \* legacy tracker: time of the last accepted fix
    watchLocation,          \* legacy tracker: id of the last watchPosition, 0 for null
    liveWatches,            \* legacy tracker: ids of the watches not yet cleared
    routes,                 \* legacy tracker: localStorage item "routes"
    lastFix,                \* legacy tracker: the last position delivered
    storage,                \* StorageService: the localStorage item under #storageKey
    storeArgs,              \* StorageService: the arguments of the last call
    storeResult,            \* StorageService: what the last call returned
    intervalId,             \* GeoSimulator.#intervalId, 0 for null
    liveTimers,             \* GeoSimulator: ids of its intervals not yet cleared
    timersCreated,          \* GeoSimulator: intervals created by setInterval so far
    currentPace,            \* GeoSimulator.#currentPace
    dynamicPace,            \* GeoSimulator.#config.dynamicPace
    delivered,              \* GeoSimulator: positions the last operation passed to callbacks
    restarted,              \* GeoSimulator: the last start() found an interval set
    wakeSupported,          \* "wakeLock" in navigator
    wakeLock,               \* WakeLockService.#wakeLock: id of the sentinel, 0 for null
    wakeIsActive,           \* WakeLockService.#isActive
    isBackground,           \* WakeLockService.#isBackground
    heldLocks,              \* sentinels the browser has not released
    sentinels,              \* sentinels the browser has handed out so far
    pendingRequests,        \* navigator.wakeLock.request promises not settled
    pendingReleases         \* release() calls waiting for sentinel.release()

\* The controller's fields and the page around it.
pageVars ==
    << now, simulationMode, autoStartPending, geoSupported, currentRoute,
       isTrackingActive, isPaused, trackingStartTime, pausedTimeAccumulated,
       timerInterval, elapsedTimeDisplay, simulator, orphanTimers, watchId,
       geoIsTracking, stopped, fromIdle, activeTotal, search, pendingRoute,
       uuids, pageLoads, recovery, waypointModal, waypointNameInput >>

vars == << now, simulationMode, autoStartPending, geoSupported, currentRoute,
           isTrackingActive, isPaused, trackingStartTime, pausedTimeAccumulated,
           timerInterval, elapsedTimeDisplay, simulator, orphanTimers, watchId,
           geoIsTracking, emitted, lastOp, stopped, fromIdle, activeTotal,
           search, pendingRoute, uuids, pageLoads, errors, uncaught,
           recovery, waypointModal, waypointNameInput,
           events, wrappers, invoked, onceCalled,
           path, distance, lastAddedPointTime, watchLocation, liveWatches,
           routes, lastFix, storage, storeArgs, storeResult,
           intervalId, liveTimers, timersCreated, currentPace, dynamicPace,
           delivered, restarted,
           wakeSupported, wakeLock, wakeIsActive, isBackground, heldLocks,
           sentinels, pendingRequests, pendingReleases >>

\* The globals of the legacy tracker script.
legacyVars ==
    << path, distance, lastAddedPointTime, watchLocation, liveWatches, routes, lastFix >>

\* The state of a StorageService and the record of the last call on it.
storeVars == << storage, storeArgs, storeResult >>

\* The fields of a GeoSimulator and the timers it created.
simVars ==
    << intervalId, liveTimers, timersCreated, currentPace, dynamicPace, delivered,
       restarted >>

\* The fields of the WakeLockService, the browser's locks and the promises
\* the service is waiting for.
wakeVars ==
    << wakeSupported, wakeLock, wakeIsActive, isBackground, heldLocks, sentinels,
       pendingRequests, pendingReleases >>

\* The variables of the EventBus object itself.
busVars == << events, wrappers, invoked, onceCalled >>

\* The state as one record, so that handlers compose like the method calls.
Cur ==
    [ now |-> now, simulationMode |-> simulationMode,
      autoStartPending |-> autoStartPending, geoSupported |-> geoSupported,
      currentRoute |-> currentRoute, isTrackingActive |-> isTrackingActive,
      isPaused |-> isPaused, trackingStartTime |-> trackingStartTime,
      pausedTimeAccumulated |-> pausedTimeAccumulated,
      timerInterval |-> timerInterval, elapsedTimeDisplay |-> elapsedTimeDisplay,
      simulator |-> simulator, orphanTimers |-> orphanTimers, watchId |-> watchId,
      geoIsTracking |-> geoIsTracking, emitted |-> emitted, lastOp |-> lastOp,
      stopped |-> stopped, fromIdle |-> fromIdle, activeTotal |-> activeTotal,
      search |-> search, pendingRoute |-> pendingRoute, uuids |-> uuids,
      pageLoads |-> pageLoads, errors |-> errors, uncaught |-> uncaught,
      recovery |-> recovery, waypointModal |-> waypointModal,
      waypointNameInput |-> waypointNameInput ]

\* The page is left as the record t.
PageBecomes(t) ==
    /\ now' = t.now
    /\ simulationMode' = t.simulationMode
    /\ autoStartPending' = t.autoStartPending
    /\ geoSupported' = t.geoSupported
    /\ currentRoute' = t.currentRoute
    /\ isTrackingActive' = t.isTrackingActive
    /\ isPaused' = t.isPaused
    /\ trackingStartTime' = t.trackingStartTime
    /\ pausedTimeAccumulated' = t.pausedTimeAccumulated
    /\ timerInterval' = t.timerInterval
    /\ elapsedTimeDisplay' = t.elapsedTimeDisplay
    /\ simulator' = t.simulator
    /\ orphanTimers' = t.orphanTimers
    /\ watchId' = t.watchId
    /\ geoIsTracking' = t.geoIsTracking
    /\ emitted' = t.emitted
    /\ lastOp' = t.lastOp
    /\ stopped' = t.stopped
    /\ fromIdle' = t.fromIdle
    /\ activeTotal' = t.activeTotal
    /\ search' = t.search
    /\ pendingRoute' = t.pendingRoute
    /\ uuids' = t.uuids
    /\ pageLoads' = t.pageLoads
    /\ errors' = t.errors
    /\ uncaught' = t.uncaught
    /\ recovery' = t.recovery
    /\ waypointModal' = t.waypointModal
    /\ waypointNameInput' = t.waypointNameInput
    /\ UNCHANGED busVars
    /\ UNCHANGED legacyVars
    /\ UNCHANGED storeVars
    /\ UNCHANGED simVars

\* An operation of the page that does not reach the WakeLockService.
Becomes(t) ==
    /\ PageBecomes(t)
    /\ UNCHANGED wakeVars

\* An operation starts with an empty event log, an empty error log and its
\* own name.
Begin(s, op) ==
    [s EXCEPT !.emitted = << >>, !.lastOp = op, !.errors = << >>, !.uncaught = FALSE]

\* ------------------------------------------------------------- models/Route
\* new Route(name): no points, no waypoints.
Route == [points |-> << >>, waypoints |-> << >>]

addPoint(route, lat, lng, t) ==
    [route EXCEPT !.points = Append(@, [lat |-> lat, lng |-> lng, timestamp |-> t])]

getPointCount(route) == Len(route.points)

getLastPoint(route) ==
    IF Len(route.points) > 0 THEN route.points[Len(route.points)] ELSE NoRoute

\* (last.timestamp || Date.now()) - (first.timestamp || 0)
getElapsedTime(route, t) ==
    IF Len(route.points) < 1 THEN 0
    ELSE LET firstPoint == route.points[1]
             lastPoint == route.points[Len(route.points)]
         IN  (IF lastPoint.timestamp # 0 THEN lastPoint.timestamp ELSE t)
             - firstPoint.timestamp

\* ------------------------------------------------------------- core/EventBus
\* EventBus.emit(event, data): the event is recorded; the controller's handler
\* for it (#subscribeToEvents) is applied by the caller, synchronously.
emit(s, event) == [s EXCEPT !.emitted = Append(@, event)]

\* ------------------------------------------------ core/EventBus: the object
\* Event names used on the bus.
Topics == { "test", "other" }

\* Callback functions: f and g return, boom throws, sub calls on(event, g)
\* and unsub calls off(event, g) for the event they are invoked for.
Callbacks ==
    { [fn |-> "f", throws |-> FALSE],
      [fn |-> "g", throws |-> FALSE],
      [fn |-> "boom", throws |-> TRUE],
      [fn |-> "sub", throws |-> FALSE],
      [fn |-> "unsub", throws |-> FALSE] }

\* A function held in events[event]: a callback passed to on (wrapper 0), or
\* the wrapper that the k-th call of once built around its callback.
Listener(callback, k) == [callback |-> callback, wrapper |-> k]

\* events: {} -- no event has an array.
NoEvents == [e \in Topics |-> [present |-> FALSE, callbacks |-> << >>]]

\* The EventBus as one record.
Bus ==
    [ events |-> events, wrappers |-> wrappers, invoked |-> invoked,
      onceCalled |-> onceCalled, errors |-> errors, uncaught |-> uncaught ]

\* on(event, callback)
busOn(b, event, listener) ==
    [b EXCEPT !.events[event] =
        [present |-> TRUE, callbacks |-> Append(@.callbacks, listener)]]

\* off(event, callback): every occurrence of the function is filtered out.
busOff(b, event, listener) ==
    IF ~b.events[event].present THEN b
    ELSE [b EXCEPT !.events[event].callbacks =
             SelectSeq(@, LAMBDA cb : cb # listener)]

\* callback(data): what the called function does to the bus before it returns.
handlerBody(b, event, callback) ==
    CASE callback.fn = "sub" ->
             busOn(b, event, Listener([fn |-> "g", throws |-> FALSE], 0))
      [] callback.fn = "unsub" ->
             busOff(b, event, Listener([fn |-> "g", throws |-> FALSE], 0))
      [] OTHER -> b

\* The body of emit's forEach, from index i of the array arr that forEach was
\* called on: callback(data) inside try/catch.  A once-wrapper calls its
\* callback and then off(event, wrapper).
RECURSIVE forEach(_, _, _, _)
forEach(b, event, arr, i) ==
    IF i > Len(arr) THEN b
    ELSE LET listener == arr[i]
             called ==
                 [b EXCEPT !.invoked = Append(@, [event |-> event,
                                                  callback |-> listener.callback,
                                                  wrapper |-> listener.wrapper]),
                           !.onceCalled = IF listener.wrapper > 0
                                          THEN @ \cup {listener.wrapper} ELSE @]
             after ==
                 IF listener.callback.throws
                 THEN [called EXCEPT !.errors = Append(@, "Error in event handler")]
                 ELSE IF listener.wrapper > 0
                      THEN busOff(handlerBody(called, event, listener.callback),
                                  event, listener)
                      ELSE handlerBody(called, event, listener.callback)
         IN  forEach(after, event, arr, i + 1)

\* The loop of emit reading this.events[event] anew at every step.
RECURSIVE forEachLive(_, _, _)
forEachLive(b, event, i) ==
    IF i > Len(b.events[event].callbacks) THEN b
    ELSE LET listener == b.events[event].callbacks[i]
             called ==
                 [b EXCEPT !.invoked = Append(@, [event |-> event,
                                                  callback |-> listener.callback,
                                                  wrapper |-> listener.wrapper]),
                           !.onceCalled = IF listener.wrapper > 0
                                          THEN @ \cup {listener.wrapper} ELSE @]
             after ==
                 IF listener.callback.throws
                 THEN [called EXCEPT !.errors = Append(@, "Error in event handler")]
                 ELSE IF listener.wrapper > 0
                      THEN busOff(handlerBody(called, event, listener.callback),
                                  event, listener)
                      ELSE handlerBody(called, event, listener.callback)
         IN  forEachLive(after, event, i + 1)

\* The loop of emit without its try/catch: the first exception ends it.
RECURSIVE forEachNoCatch(_, _, _, _)
forEachNoCatch(b, event, arr, i) ==
    IF i > Len(arr) THEN b
    ELSE LET listener == arr[i]
             called ==
                 [b EXCEPT !.invoked = Append(@, [event |-> event,
                                                  callback |-> listener.callback,
                                                  wrapper |-> listener.wrapper]),
                           !.onceCalled = IF listener.wrapper > 0
                                          THEN @ \cup {listener.wrapper} ELSE @]
         IN  IF listener.callback.throws
             THEN [called EXCEPT !.uncaught = TRUE]
             ELSE forEachNoCatch(
                      IF listener.wrapper > 0
                      THEN busOff(handlerBody(called, event, listener.callback),
                                  event, listener)
                      ELSE handlerBody(called, event, listener.callback),
                      event, arr, i + 1)

busEmit_noCatch(b, event) ==
    IF ~b.events[event].present THEN b
    ELSE forEachNoCatch(b, event, b.events[event].callbacks, 1)

busEmit_liveList(b, event) ==
    IF ~b.events[event].present THEN b
    ELSE forEachLive(b, event, 1)

\* emit(event, data)
busEmit(b, event) ==
    IF ~b.events[event].present THEN b
    ELSE forEach(b, event, b.events[event].callbacks, 1)

\* once(event, callback): on(event, wrapper) with a new wrapper function.
busOnce(b, event, callback) ==
    busOn([b EXCEPT !.wrappers = @ + 1], event, Listener(callback, b.wrappers + 1))

\* clear(event): delete events[event], or events = {} without an event ("").
busClear(b, event) ==
    IF event # ""
    THEN [b EXCEPT !.events[event] = [present |-> FALSE, callbacks |-> << >>]]
    ELSE [b EXCEPT !.events = NoEvents]

\* ------------------------------------------------ the legacy tracker script
\* const isTimeDifferenceValid = timeDifference >= 10000
TIME_MIN_DIFERENCE == 10000

\* Coordinates the legacy watch may report.
LegacyPositions == Positions \cup { [lat |-> 1, lng |-> 0] }

\* The script's globals as one record.
Legacy ==
    [ now |-> now, path |-> path, distance |-> distance,
      lastAddedPointTime |-> lastAddedPointTime,
      watchLocation |-> watchLocation, liveWatches |-> liveWatches,
      routes |-> routes, lastFix |-> lastFix ]

\* calculateDistance(): the great-circle distance of two coordinates in
\* metres; on the grid of the model's coordinates it is the grid distance,
\* which like it is symmetric, additive along a line and 0 for equal points.
Abs(n) == IF n < 0 THEN -n ELSE n

calculateDistance(lat1, lon1, lat2, lon2) == Abs(lat1 - lat2) + Abs(lon1 - lon2)

\* updateDistance(pos), called after pos was pushed: with more than one
\* point the leg from the point before the last one to pos is added.
updateDistance(l, pos) ==
    IF Len(l.path) > 1
    THEN [l EXCEPT !.distance = @ + calculateDistance(l.path[Len(l.path) - 1].lat,
                                                      l.path[Len(l.path) - 1].lng,
                                                      pos.lat, pos.lng)]
    ELSE l

\* path.some(point => point.lat === lat && point.lng === lng)
pathSome(points, actualPosition) ==
    \E i \in 1..Len(points) :
        points[i].lat = actualPosition.lat /\ points[i].lng = actualPosition.lng

\* The watchPosition callback with the time test alone.
onPosition_timeOnly(l, position) ==
    LET actualPosition == [lat |-> position.lat, lng |-> position.lng]
        currentTime == l.now
        timeDifference == currentTime - l.lastAddedPointTime
        isTimeDifferenceValid == timeDifference >= TIME_MIN_DIFERENCE
        seen == [l EXCEPT !.lastFix = actualPosition]
    IN  IF isTimeDifferenceValid
        THEN updateDistance([seen EXCEPT !.lastAddedPointTime = currentTime,
                                         !.path = Append(@, actualPosition)],
                            actualPosition)
        ELSE seen

\* The watchPosition callback with the duplicate test alone.
onPosition_newOnly(l, position) ==
    LET actualPosition == [lat |-> position.lat, lng |-> position.lng]
        isNewPoint == ~pathSome(l.path, actualPosition)
        currentTime == l.now
        seen == [l EXCEPT !.lastFix = actualPosition]
    IN  IF isNewPoint
        THEN updateDistance([seen EXCEPT !.lastAddedPointTime = currentTime,
                                         !.path = Append(@, actualPosition)],
                            actualPosition)
        ELSE seen

\* The watchPosition callback taking the time of every fix, accepted or not.
onPosition_stampsRejected(l, position) ==
    LET actualPosition == [lat |-> position.lat, lng |-> position.lng]
        isNewPoint == ~pathSome(l.path, actualPosition)
        currentTime == l.now
        timeDifference == currentTime - l.lastAddedPointTime
        isTimeDifferenceValid == timeDifference >= TIME_MIN_DIFERENCE
        seen == [l EXCEPT !.lastFix = actualPosition,
                          !.lastAddedPointTime = currentTime]
    IN  IF isNewPoint /\ isTimeDifferenceValid
        THEN updateDistance([seen EXCEPT !.path = Append(@, actualPosition)],
                            actualPosition)
        ELSE seen

\* The watchPosition callback of startTracking.
onPosition(l, position) ==
    LET actualPosition == [lat |-> position.lat, lng |-> position.lng]
        isNewPoint == ~pathSome(l.path, actualPosition)
        currentTime == l.now
        timeDifference == currentTime - l.lastAddedPointTime
        isTimeDifferenceValid == timeDifference >= TIME_MIN_DIFERENCE
        seen == [l EXCEPT !.lastFix = actualPosition]
    IN  IF isNewPoint /\ isTimeDifferenceValid
        THEN updateDistance([seen EXCEPT !.lastAddedPointTime = currentTime,
                                         !.path = Append(@, actualPosition)],
                            actualPosition)
        ELSE seen

\* startTracking(): a new watch; its id replaces the one in watchLocation.
legacyStartTracking(l, id) ==
    [l EXCEPT !.watchLocation = id, !.liveWatches = @ \cup {id}]

\* stopTracking(): clearWatch(watchLocation) when it is set.
legacyStopTracking(l) ==
    IF l.watchLocation # 0
    THEN [l EXCEPT !.liveWatches = @ \ {l.watchLocation}]
    ELSE l

\* savePath(): the path and its distance are appended to the stored routes.
savePath(l) ==
    [l EXCEPT !.routes = Append(@, [distance |-> l.distance, path |-> l.path])]

\* The page load taking the path of the stored route without its distance.
checkParamId_pathOnly(l, index) ==
    LET fresh == [l EXCEPT !.path = << >>, !.distance = 0,
                           !.lastAddedPointTime = 0,
                           !.watchLocation = 0, !.liveWatches = {},
                           !.lastFix = NoRoute]
        item == l.routes[index]
    IN  IF index = 0 THEN fresh ELSE [fresh EXCEPT !.path = item.path]

\* The script runs on page load: fresh globals, then checkParamId() takes
\* the path and the distance of the stored route the id parameter names
\* (0: no such route).
checkParamId(l, index) ==
    LET fresh == [l EXCEPT !.path = << >>, !.distance = 0,
                           !.lastAddedPointTime = 0,
                           !.watchLocation = 0, !.liveWatches = {},
                           !.lastFix = NoRoute]
        item == l.routes[index]
    IN  IF index = 0
        THEN fresh
        ELSE [fresh EXCEPT !.path = item.path, !.distance = item.distance]

\* ------------------------------------------------- UIController: the timer
startTimer(s) == [s EXCEPT !.timerInterval = TRUE]

stopTimer(s) == [s EXCEPT !.timerInterval = FALSE]

\* elapsed = pausedTimeAccumulated (+ Date.now() - trackingStartTime unless paused)
updateElapsedTime(s) ==
    LET elapsed == s.pausedTimeAccumulated
                   + (IF ~s.isPaused THEN s.now - s.trackingStartTime ELSE 0)
    IN  [s EXCEPT !.elapsedTimeDisplay = elapsed]

\* #savePendingRoute: the elapsed time written into a snapshot.
elapsedMs(s) ==
    s.pausedTimeAccumulated
    + (IF ~s.isPaused /\ s.trackingStartTime > 0 THEN s.now - s.trackingStartTime ELSE 0)

\* ------------------------------------- UIController: EventBus subscriptions
\* #onLocationUpdate(pos): only a missing route makes it return early.
onLocationUpdate(s, pos) ==
    IF s.currentRoute = NoRoute THEN s
    ELSE emit([s EXCEPT !.currentRoute = addPoint(@, pos.lat, pos.lng, s.now)],
              "route:point-added")

\* #onLocationError() ending the session as #onTrackingStopped does.
onLocationError_stops(s) ==
    stopTimer([s EXCEPT !.isTrackingActive = FALSE,
                        !.isPaused = FALSE,
                        !.stopped = TRUE])

\* #onLocationError(): a notification, the status text and the GPS indicator.
onLocationError(s) == s

\* #onTrackingStarted(): the part before the first await.
onTrackingStarted(s) ==
    startTimer([s EXCEPT !.isTrackingActive = TRUE,
                         !.isPaused = FALSE,
                         !.trackingStartTime = s.now,
                         !.pausedTimeAccumulated = 0])

\* #onTrackingStopped(): the part before the first await.
onTrackingStopped(s) ==
    stopTimer([s EXCEPT !.isTrackingActive = FALSE,
                        !.isPaused = FALSE,
                        !.stopped = TRUE])

\* EventBus.emit of the four topics the controller subscribes to.
emitLocationUpdated(s, pos) == onLocationUpdate(emit(s, "location:updated"), pos)

emitLocationError(s) == onLocationError(emit(s, "location:error"))

emitTrackingStarted(s) == onTrackingStarted(emit(s, "tracking:started"))

emitTrackingStopped(s) == onTrackingStopped(emit(s, "tracking:stopped"))

\* ------------------------------------------------- core/GeoLocationService
startWatching(s) ==
    IF ~s.geoSupported THEN emitLocationError(s)
    ELSE IF s.geoIsTracking THEN s
    ELSE emitTrackingStarted([s EXCEPT !.watchId = TRUE, !.geoIsTracking = TRUE])

\* stopWatching as it was before the emitEvent option: the event is always emitted.
stopWatching_alwaysEmits(s, emitEvent) ==
    IF s.watchId
    THEN emitTrackingStopped([s EXCEPT !.watchId = FALSE, !.geoIsTracking = FALSE])
    ELSE s

stopWatching(s, emitEvent) ==
    IF s.watchId
    THEN LET t == [s EXCEPT !.watchId = FALSE, !.geoIsTracking = FALSE]
         IN  IF emitEvent THEN emitTrackingStopped(t) ELSE t
    ELSE s

\* ------------------------------------------------------- core/GeoSimulator
\* stop(): clears the interval of the simulator the controller references.
simulatorStop(s) ==
    IF s.simulator = "running" THEN [s EXCEPT !.simulator = "stopped"] ELSE s

\* start(callback): stops a live interval, calls back at once with the
\* current position, then sets the interval.
simulatorStart(s, pos) ==
    LET t == emitLocationUpdated(simulatorStop(s), pos)
    IN  [t EXCEPT !.simulator = "running"]

\* new GeoSimulator(...) assigned to #simulator: a simulator still running
\* keeps its interval, which nothing references any more.
newSimulator(s) ==
    [s EXCEPT !.orphanTimers = IF s.simulator = "running" THEN @ + 1 ELSE @,
              !.simulator = "stopped"]

\* ------------------------------------------------ UIController: operations
\* this.#currentRoute = new Route(name): a new session.
newRoute(s) ==
    [s EXCEPT !.currentRoute = Route,
              !.stopped = FALSE,
              !.fromIdle = ~s.isTrackingActive,
              !.activeTotal = 0]

startSimulation(s, pos) ==
    emitTrackingStarted(simulatorStart(newSimulator(s), pos))

startTracking(s, pos) ==
    LET t == newRoute(s)
    IN  IF t.simulationMode THEN startSimulation(t, pos)
        ELSE IF ~t.geoSupported THEN t
        ELSE startWatching(t)

autoStartSimulation(s, pos) ==
    emitTrackingStarted(simulatorStart(newRoute(newSimulator(s)), pos))

stopTracking(s) ==
    IF s.simulationMode /\ s.simulator # "null"
    THEN emitTrackingStopped([simulatorStop(s) EXCEPT !.simulator = "null"])
    ELSE IF s.isPaused THEN emitTrackingStopped(s)
    ELSE stopWatching(s, TRUE)

\* pauseTracking guarded by #isPaused only.
pauseTracking_noActiveGuard(s) ==
    IF s.isPaused THEN s
    ELSE LET t == [s EXCEPT !.isPaused = TRUE,
                            !.pausedTimeAccumulated = @ + (s.now - s.trackingStartTime)]
             u == IF t.simulationMode /\ t.simulator # "null"
                  THEN simulatorStop(t)
                  ELSE stopWatching(t, FALSE)
         IN  stopTimer(u)

pauseTracking(s) ==
    IF ~s.isTrackingActive \/ s.isPaused THEN s
    ELSE LET t == [s EXCEPT !.isPaused = TRUE,
                            !.pausedTimeAccumulated = @ + (s.now - s.trackingStartTime)]
             u == IF t.simulationMode /\ t.simulator # "null"
                  THEN simulatorStop(t)
                  ELSE stopWatching(t, FALSE)
         IN  stopTimer(u)

\* resumeTracking guarded by #isTrackingActive only.
resumeTracking_noPausedGuard(s, pos) ==
    IF ~s.isTrackingActive THEN s
    ELSE LET t == [s EXCEPT !.isPaused = FALSE, !.trackingStartTime = s.now]
             u == IF t.simulationMode /\ t.simulator # "null"
                  THEN simulatorStart(t, pos)
                  ELSE startWatching(t)
         IN  startTimer(u)

resumeTracking(s, pos) ==
    IF ~s.isTrackingActive \/ ~s.isPaused THEN s
    ELSE LET t == [s EXCEPT !.isPaused = FALSE, !.trackingStartTime = s.now]
             u == IF t.simulationMode /\ t.simulator # "null"
                  THEN simulatorStart(t, pos)
                  ELSE startWatching(t)
         IN  startTimer(u)

togglePause(s, pos) ==
    IF s.isPaused THEN resumeTracking(s, pos) ELSE pauseTracking(s)

\* ------------------------------------------------ models/Route: waypoints
\* new Waypoint(lat, lng, name): a generated id and the time of construction.
Waypoint(id, lat, lng, name, t) ==
    [id |-> id, lat |-> lat, lng |-> lng, name |-> name, timestamp |-> t]

\* Route.addWaypoint(lat, lng, name): the new Waypoint is appended.
addWaypoint(s, lat, lng, name) ==
    [s EXCEPT !.uuids = @ + 1,
              !.currentRoute.waypoints =
                  Append(@, Waypoint(s.uuids + 1, lat, lng, name, s.now))]

\* The waypoint button is displayed exactly while #isTrackingActive is set:
\* #setButtonsState(isTracking) is called with the value assigned to
\* #isTrackingActive, and #updatePauseButton only while it is set.
waypointBtnDisplayed(s) == s.isTrackingActive

\* #showWaypointModal()
showWaypointModal(s) == [s EXCEPT !.waypointModal = TRUE]

\* #hideWaypointModal(): the modal is hidden and its name field emptied.
hideWaypointModal(s) == [s EXCEPT !.waypointModal = FALSE, !.waypointNameInput = ""]

\* String.prototype.trim() on the texts of WaypointNames.
trim(text) == IF text = " " THEN "" ELSE text

\* #saveWaypoint() accepting a request on a route without points, at the
\* origin.
saveWaypoint_noPositionCheck(s) ==
    LET name == trim(s.waypointNameInput)
    IN  IF name = "" THEN s
        ELSE IF s.currentRoute = NoRoute THEN hideWaypointModal(s)
        ELSE LET lastPoint == IF getLastPoint(s.currentRoute) = NoRoute
                              THEN [lat |-> 0, lng |-> 0]
                              ELSE getLastPoint(s.currentRoute)
             IN  hideWaypointModal(addWaypoint(s, lastPoint.lat, lastPoint.lng, name))

\* #saveWaypoint(): a named waypoint at the last recorded point.
saveWaypoint(s) ==
    LET name == trim(s.waypointNameInput)
    IN  IF name = "" THEN s
        ELSE IF s.currentRoute = NoRoute THEN hideWaypointModal(s)
        ELSE IF getLastPoint(s.currentRoute) = NoRoute THEN hideWaypointModal(s)
        ELSE LET lastPoint == getLastPoint(s.currentRoute)
             IN  hideWaypointModal(addWaypoint(s, lastPoint.lat, lastPoint.lng, name))

\* ------------------------------------------------ UIController: the snapshot
\* console.error(message, err)
consoleError(s, message) == [s EXCEPT !.errors = Append(@, message)]

\* JSON.stringify(value): the text of a value.
JSONstringify(value) == [item |-> "json", value |-> value]

\* An item whose text is not JSON.
Garbage == [item |-> "garbage"]

SyntaxError == [error |-> "SyntaxError"]

\* JSON.parse(text): the value, or a SyntaxError thrown.
JSONparse(text) == IF text.item = "json" THEN text.value ELSE SyntaxError

\* #savePendingRoute(): quotaExceeded is localStorage.setItem throwing.
savePendingRoute_noCatch(s, quotaExceeded) ==
    IF s.currentRoute = NoRoute THEN s
    ELSE LET pendingData == [ points |-> s.currentRoute.points,
                              waypoints |-> s.currentRoute.waypoints,
                              elapsedTime |-> elapsedMs(s),
                              savedAt |-> s.now ]
         IN  IF quotaExceeded
             THEN [s EXCEPT !.uncaught = TRUE]
             ELSE [s EXCEPT !.pendingRoute = JSONstringify(pendingData)]

savePendingRoute(s, quotaExceeded) ==
    IF s.currentRoute = NoRoute THEN s
    ELSE LET pendingData == [ points |-> s.currentRoute.points,
                              waypoints |-> s.currentRoute.waypoints,
                              elapsedTime |-> elapsedMs(s),
                              savedAt |-> s.now ]
         IN  IF quotaExceeded
             THEN consoleError(s, "Error saving pending route:")
             ELSE [s EXCEPT !.pendingRoute = JSONstringify(pendingData)]

\* #loadPendingRoute(): the parsed item, or null (NoItem) when the item is
\* absent or JSON.parse throws.
loadPendingRoute(s) ==
    LET data == s.pendingRoute
        parsed == IF data = NoItem THEN NoItem ELSE JSONparse(data)
    IN  IF parsed = SyntaxError THEN NoItem ELSE parsed

\* #clearPendingRoute()
clearPendingRoute(s) == [s EXCEPT !.pendingRoute = NoItem]

\* The loops of #restoreFromPendingRoute over the saved points and waypoints.
RECURSIVE restorePoints(_, _)
restorePoints(s, points) ==
    IF points = << >> THEN s
    ELSE restorePoints(
             [s EXCEPT !.currentRoute =
                 addPoint(@, Head(points).lat, Head(points).lng, s.now)],
             Tail(points))

RECURSIVE restoreWaypoints(_, _)
restoreWaypoints(s, waypoints) ==
    IF waypoints = << >> THEN s
    ELSE LET wp == Head(waypoints)
         IN  restoreWaypoints(addWaypoint(s, wp.lat, wp.lng, wp.name), Tail(waypoints))

\* #restoreFromPendingRoute(pendingData)
restoreFromPendingRoute(s, pendingData) ==
    LET s1 == [s EXCEPT !.currentRoute = Route,
                        !.stopped = FALSE,
                        !.fromIdle = FALSE,
                        !.activeTotal = pendingData.elapsedTime]
        s2 == restoreWaypoints(restorePoints(s1, pendingData.points),
                               pendingData.waypoints)
        s3 == [s2 EXCEPT !.pausedTimeAccumulated = pendingData.elapsedTime,
                         !.trackingStartTime = s.now,
                         !.isTrackingActive = TRUE,
                         !.isPaused = FALSE]
    IN  emitTrackingStarted(startWatching(startTimer(s3)))

\* 24 * 60 * 60 * 1000
maxAge == 86400000

\* #checkForPendingRoute() with age <= maxAge in place of age < maxAge.
checkForPendingRoute_ageInclusive(s) ==
    IF ~s.search.resume THEN [s EXCEPT !.recovery = "none"]
    ELSE LET pendingData == loadPendingRoute(s)
         IN  IF pendingData = NoItem THEN [s EXCEPT !.recovery = "none"]
             ELSE IF ~(Len(pendingData.points) > 0) THEN [s EXCEPT !.recovery = "none"]
             ELSE IF s.now - pendingData.savedAt <= maxAge
             THEN [clearPendingRoute(restoreFromPendingRoute(s, pendingData))
                     EXCEPT !.search = [resume |-> FALSE, simulate |-> FALSE],
                            !.recovery = "restored"]
             ELSE [clearPendingRoute(s) EXCEPT !.recovery = "expired"]

\* #checkForPendingRoute(): runs once, in init().
checkForPendingRoute(s) ==
    IF ~s.search.resume THEN [s EXCEPT !.recovery = "none"]
    ELSE LET pendingData == loadPendingRoute(s)
         IN  IF pendingData = NoItem THEN [s EXCEPT !.recovery = "none"]
             ELSE IF ~(Len(pendingData.points) > 0) THEN [s EXCEPT !.recovery = "none"]
             ELSE IF s.now - pendingData.savedAt < maxAge
             THEN [clearPendingRoute(restoreFromPendingRoute(s, pendingData))
                     EXCEPT !.search = [resume |-> FALSE, simulate |-> FALSE],
                            !.recovery = "restored"]
             ELSE [clearPendingRoute(s) EXCEPT !.recovery = "expired"]

\* #checkSimulationMode(): the mode of the page and the auto-start timeout.
checkSimulationMode(s) ==
    [s EXCEPT !.simulationMode = s.search.simulate,
              !.autoStartPending = s.search.simulate]

\* saveRoute() without the removal of the pending route.
saveRoute_keepsPending(s, saved) ==
    IF s.currentRoute = NoRoute THEN s
    ELSE IF getPointCount(s.currentRoute) = 0 THEN s
    ELSE IF saved THEN s
    ELSE consoleError(s, "Error saving to storage:")

\* saveRoute(): saved is the result of StorageService.save.
saveRoute(s, saved) ==
    IF s.currentRoute = NoRoute THEN s
    ELSE IF getPointCount(s.currentRoute) = 0 THEN s
    ELSE IF saved THEN clearPendingRoute(s)
    ELSE consoleError(s, "Error saving to storage:")

\* #handleExitSave()
handleExitSave(s, quotaExceeded) == savePendingRoute(s, quotaExceeded)

\* #handleExitDiscard()
handleExitDiscard(s) == stopTracking(clearPendingRoute(s))

\* #onVisibilityChange()
onVisibilityChange(s, hidden, quotaExceeded) ==
    IF hidden /\ s.isTrackingActive THEN savePendingRoute(s, quotaExceeded) ELSE s

\* #onBeforeUnload(e)
onBeforeUnload(s, quotaExceeded) ==
    IF s.isTrackingActive THEN savePendingRoute(s, quotaExceeded) ELSE s

\* The page is opened: new UIController(...) and init().
init(s) ==
    LET constructed ==
            [s EXCEPT !.simulationMode = FALSE, !.autoStartPending = FALSE,
                      !.currentRoute = NoRoute, !.isTrackingActive = FALSE,
                      !.isPaused = FALSE, !.trackingStartTime = 0,
                      !.pausedTimeAccumulated = 0, !.timerInterval = FALSE,
                      !.elapsedTimeDisplay = 0, !.simulator = "null",
                      !.orphanTimers = 0, !.watchId = FALSE,
                      !.geoIsTracking = FALSE, !.stopped = FALSE,
                      !.fromIdle = TRUE, !.activeTotal = 0,
                      !.waypointModal = FALSE, !.waypointNameInput = ""]
    IN  checkSimulationMode(checkForPendingRoute(constructed))

\* ------------------------------------------------------------ session state
\* The four states of the session, read off the controller's fields.
SessionState ==
    IF currentRoute = NoRoute THEN "None"
    ELSE IF isTrackingActive THEN (IF isPaused THEN "Paused" ELSE "Active")
    ELSE IF stopped THEN "Stopped"
    ELSE "Idle"

\* ------------------------------------------------------------------ actions
\* The objects as their constructors and module bodies leave them.
ConstructedObjects ==
    /\ simulationMode \in BOOLEAN
    /\ autoStartPending = simulationMode
    /\ geoSupported \in BOOLEAN
    /\ currentRoute = NoRoute
    /\ isTrackingActive = FALSE
    /\ isPaused = FALSE
    /\ trackingStartTime = 0
    /\ pausedTimeAccumulated = 0
    /\ timerInterval = FALSE
    /\ elapsedTimeDisplay = 0
    /\ simulator = "null"
    /\ orphanTimers = 0
    /\ watchId = FALSE
    /\ geoIsTracking = FALSE
    /\ emitted = << >>
    /\ lastOp = "init"
    /\ stopped = FALSE
    /\ fromIdle = TRUE
    /\ activeTotal = 0
    /\ search = [resume |-> FALSE, simulate |-> simulationMode]
    /\ pendingRoute = NoItem
    /\ uuids = 0
    /\ pageLoads = 0
    /\ errors = << >>
    /\ uncaught = FALSE
    /\ recovery = "none"
    /\ waypointModal = FALSE
    /\ waypointNameInput = ""
    /\ events = NoEvents
    /\ wrappers = 0
    /\ invoked = << >>
    /\ onceCalled = {}
    /\ path = << >>
    /\ distance = 0
    /\ lastAddedPointTime = 0
    /\ watchLocation = 0
    /\ liveWatches = {}
    /\ routes = << >>
    /\ lastFix = NoRoute
    /\ storeArgs = << >>
    /\ storeResult = FALSE
    /\ intervalId = 0
    /\ liveTimers = {}
    /\ timersCreated = 0
    /\ currentPace = "walking"
    /\ dynamicPace = TRUE
    /\ delivered = 0
    /\ restarted = FALSE
    /\ wakeLock = 0
    /\ wakeIsActive = FALSE
    /\ isBackground = FALSE
    /\ heldLocks = {}
    /\ sentinels = 0
    /\ pendingRequests = 0
    /\ pendingReleases = 0

\* The page as loaded on a browser whose localStorage has no routes and
\* that has the Screen Wake Lock API.
Constructed ==
    /\ storage = NoItem
    /\ wakeSupported = TRUE
    /\ ConstructedObjects

Init ==
    /\ now = 1
    /\ Constructed

\* The room a fix needs in the bounded route.
HasRoom == IF currentRoute = NoRoute THEN TRUE ELSE Len(currentRoute.points) < MaxPoints

\* Wall-clock time passes.
Tick ==
    /\ now < MaxTime
    /\ Becomes([Begin(Cur, "tick") EXCEPT
           !.now = now + 1,
           !.activeTotal = IF SessionState = "Active" THEN @ + 1 ELSE @])

StartTracking ==
    /\ simulationMode => orphanTimers + (IF simulator = "running" THEN 1 ELSE 0) <= MaxOrphans
    /\ \E pos \in Positions : Becomes(startTracking(Begin(Cur, "startTracking"), pos))

AutoStartSimulation ==
    /\ autoStartPending
    /\ orphanTimers + (IF simulator = "running" THEN 1 ELSE 0) <= MaxOrphans
    /\ \E pos \in Positions :
         Becomes(autoStartSimulation(
             [Begin(Cur, "autoStartSimulation") EXCEPT !.autoStartPending = FALSE], pos))

StopTracking ==
    \E s \in {Begin(Cur, "stopTracking")} : Becomes(stopTracking(s))

PauseTracking ==
    \E s \in {Begin(Cur, "pauseTracking")} : Becomes(pauseTracking(s))

ResumeTracking ==
    /\ HasRoom
    /\ \E pos \in Positions : Becomes(resumeTracking(Begin(Cur, "resumeTracking"), pos))

TogglePause ==
    /\ HasRoom
    /\ \E pos \in Positions : Becomes(togglePause(Begin(Cur, "togglePause"), pos))

\* watchPosition success callback: onSuccess(pos), then location:updated.
GpsFix ==
    /\ watchId
    /\ HasRoom
    /\ \E pos \in Positions : Becomes(emitLocationUpdated(Begin(Cur, "gpsFix"), pos))

\* watchPosition error callback: onError(geoError), then location:error.
GpsError ==
    /\ watchId
    /\ Becomes(emitLocationError(Begin(Cur, "gpsError")))

\* setInterval callback of the simulator the controller references.
SimulatorTick ==
    /\ simulator = "running"
    /\ HasRoom
    /\ \E pos \in Positions : Becomes(emitLocationUpdated(Begin(Cur, "simulatorTick"), pos))

\* setInterval callback of a simulator that was replaced while running.
OrphanTick ==
    /\ orphanTimers > 0
    /\ HasRoom
    /\ \E pos \in Positions : Becomes(emitLocationUpdated(Begin(Cur, "orphanTick"), pos))

\* setInterval callback of #startTimer.
TimerTick ==
    /\ timerInterval
    /\ Becomes(updateElapsedTime(Begin(Cur, "timerTick")))

Next ==
    \/ Tick
    \/ StartTracking
    \/ AutoStartSimulation
    \/ StopTracking
    \/ PauseTracking
    \/ ResumeTracking
    \/ TogglePause
    \/ GpsFix
    \/ GpsError
    \/ SimulatorTick
    \/ OrphanTick
    \/ TimerTick

Spec == Init /\ [][Next]_vars

\* ------------------------------------------- the snapshot across page loads
\* The first page load finds whatever an earlier visit left in localStorage
\* that #checkForPendingRoute does not act on: no item, or text that is not
\* JSON.  The pages are opened without ?simulate=true in a browser that has
\* geolocation: the fixes come from the geolocation watch.
SnapInit ==
    /\ now = 1
    /\ simulationMode = FALSE
    /\ autoStartPending = simulationMode
    /\ geoSupported = TRUE
    /\ currentRoute = NoRoute
    /\ isTrackingActive = FALSE
    /\ isPaused = FALSE
    /\ trackingStartTime = 0
    /\ pausedTimeAccumulated = 0
    /\ timerInterval = FALSE
    /\ elapsedTimeDisplay = 0
    /\ simulator = "null"
    /\ orphanTimers = 0
    /\ watchId = FALSE
    /\ geoIsTracking = FALSE
    /\ emitted = << >>
    /\ lastOp = "init"
    /\ stopped = FALSE
    /\ fromIdle = TRUE
    /\ activeTotal = 0
    /\ search \in [resume : BOOLEAN, simulate : {simulationMode}]
    /\ pendingRoute \in {NoItem, Garbage}
    /\ uuids = 0
    /\ pageLoads = 0
    /\ errors = << >>
    /\ uncaught = FALSE
    /\ recovery = "none"
    /\ waypointModal = FALSE
    /\ waypointNameInput = ""
    /\ events = NoEvents
    /\ wrappers = 0
    /\ invoked = << >>
    /\ onceCalled = {}
    /\ path = << >>
    /\ distance = 0
    /\ lastAddedPointTime = 0
    /\ watchLocation = 0
    /\ liveWatches = {}
    /\ routes = << >>
    /\ lastFix = NoRoute
    /\ storage = NoItem
    /\ storeArgs = << >>
    /\ storeResult = FALSE
    /\ intervalId = 0
    /\ liveTimers = {}
    /\ timersCreated = 0
    /\ currentPace = "walking"
    /\ dynamicPace = TRUE
    /\ delivered = 0
    /\ restarted = FALSE
    /\ wakeSupported = TRUE
    /\ wakeLock = 0
    /\ wakeIsActive = FALSE
    /\ isBackground = FALSE
    /\ heldLocks = {}
    /\ sentinels = 0
    /\ pendingRequests = 0
    /\ pendingReleases = 0

\* Wall-clock time passes while a page is open.
SnapTick ==
    /\ now < MaxSnapTime
    /\ \E s \in {Begin(Cur, "tick")} : Becomes([s EXCEPT !.now = now + 1])

\* The start button, pressed once per page.
SnapStartTracking ==
    /\ currentRoute = NoRoute
    /\ \E pos \in Positions : Becomes(startTracking(Begin(Cur, "startTracking"), pos))

\* The page is left and opened again d milliseconds later, with any query.
PageLoad ==
    /\ pageLoads < MaxPageLoads
    /\ \E resume \in BOOLEAN, d \in {0, maxAge - 1, maxAge} :
         Becomes(init([Begin(Cur, "pageLoad") EXCEPT
             !.now = now + d,
             !.search = [resume |-> resume, simulate |-> FALSE],
             !.pageLoads = pageLoads + 1]))

\* The waypoint button is clicked, a name typed and the save button clicked.
SaveWaypoint ==
    /\ uuids < MaxUuids
    /\ waypointBtnDisplayed(Cur)
    /\ \E name \in WaypointNames :
         Becomes(saveWaypoint([showWaypointModal(Begin(Cur, "saveWaypoint"))
                                  EXCEPT !.waypointNameInput = name]))

SaveRoute ==
    \E s \in {Begin(Cur, "saveRoute")} :
        \E saved \in BOOLEAN : Becomes(saveRoute(s, saved))

HandleExitSave ==
    \E s \in {Begin(Cur, "handleExitSave")} :
        \E quotaExceeded \in BOOLEAN : Becomes(handleExitSave(s, quotaExceeded))

HandleExitDiscard ==
    \E s \in {Begin(Cur, "handleExitDiscard")} : Becomes(handleExitDiscard(s))

VisibilityChange ==
    \E s \in {Begin(Cur, "visibilityChange")} :
        \E hidden, quotaExceeded \in BOOLEAN :
            Becomes(onVisibilityChange(s, hidden, quotaExceeded))

BeforeUnload ==
    \E s \in {Begin(Cur, "beforeUnload")} :
        \E quotaExceeded \in BOOLEAN : Becomes(onBeforeUnload(s, quotaExceeded))

SnapNext ==
    \/ SnapTick
    \/ SnapStartTracking
    \/ StopTracking
    \/ PauseTracking
    \/ GpsFix
    \/ SaveWaypoint
    \/ SaveRoute
    \/ HandleExitSave
    \/ HandleExitDiscard
    \/ VisibilityChange
    \/ BeforeUnload
    \/ PageLoad

SnapSpec == SnapInit /\ [][SnapNext]_vars

\* ------------------------------------------------- the EventBus on its own
\* The bus as the module creates it: events = {}.
BusInit ==
    /\ Init
    /\ simulationMode = FALSE
    /\ geoSupported = TRUE

\* A call on the bus starts with empty logs.
BeginBus == [Bus EXCEPT !.invoked = << >>, !.errors = << >>, !.uncaught = FALSE]

BusBecomes(b, op, published) ==
    /\ events' = b.events
    /\ wrappers' = b.wrappers
    /\ invoked' = b.invoked
    /\ onceCalled' = b.onceCalled
    /\ errors' = b.errors
    /\ uncaught' = b.uncaught
    /\ lastOp' = op
    /\ emitted' = published
    /\ UNCHANGED pageVars
    /\ UNCHANGED legacyVars
    /\ UNCHANGED storeVars
    /\ UNCHANGED simVars
    /\ UNCHANGED wakeVars

\* The functions a caller can pass to off: a callback, or the unsubscribe
\* function of a subscription, which passes the function that was subscribed.
Removable(event) == { Listener(cb, 0) : cb \in Callbacks } \cup
                    { events[event].callbacks[i] : i \in 1..Len(events[event].callbacks) }

On ==
    \E event \in Topics, callback \in Callbacks :
        /\ Len(events[event].callbacks) < MaxListeners
        /\ BusBecomes(busOn(BeginBus, event, Listener(callback, 0)), "on", << >>)

Off ==
    \E event \in Topics :
        \E listener \in Removable(event) :
            BusBecomes(busOff(BeginBus, event, listener), "off", << >>)

Once ==
    /\ wrappers < MaxOnce
    /\ \E event \in Topics, callback \in Callbacks :
        /\ Len(events[event].callbacks) < MaxListeners
        /\ BusBecomes(busOnce(BeginBus, event, callback), "once", << >>)

\* The function on returned for a subscription that is still held.
Unsubscribe ==
    \E event \in Topics :
        \E i \in 1..Len(events[event].callbacks) :
            BusBecomes(busOff(BeginBus, event, events[event].callbacks[i]),
                       "unsubscribe", << >>)

Emit ==
    \E b \in {BeginBus} :
        \E event \in Topics :
            /\ Len(busEmit(b, event).events[event].callbacks) <= MaxGrown
            /\ BusBecomes(busEmit(b, event), "emit", << event >>)

Clear ==
    \E b \in {BeginBus} :
        \E event \in Topics \cup {""} : BusBecomes(busClear(b, event), "clear", << >>)

BusNext ==
    \/ On
    \/ Off
    \/ Unsubscribe
    \/ Once
    \/ Emit
    \/ Clear

BusSpec == BusInit /\ [][BusNext]_vars

\* --------------------------------------------- the legacy tracker on its own
\* The clock reads a time of day: more than TIME_MIN_DIFERENCE after 0.
LegacyInit ==
    /\ now = TIME_MIN_DIFERENCE
    /\ Constructed
    /\ simulationMode = FALSE
    /\ geoSupported = TRUE

LegacyBecomes(l, op) ==
    /\ now' = l.now
    /\ path' = l.path
    /\ distance' = l.distance
    /\ lastAddedPointTime' = l.lastAddedPointTime
    /\ watchLocation' = l.watchLocation
    /\ liveWatches' = l.liveWatches
    /\ routes' = l.routes
    /\ lastFix' = l.lastFix
    /\ lastOp' = op
    /\ UNCHANGED << simulationMode, autoStartPending, geoSupported, currentRoute,
                    isTrackingActive, isPaused, trackingStartTime,
                    pausedTimeAccumulated, timerInterval, elapsedTimeDisplay,
                    simulator, orphanTimers, watchId, geoIsTracking, emitted,
                    stopped, fromIdle, activeTotal, search, pendingRoute, uuids,
                    pageLoads, errors, uncaught, recovery, waypointModal,
                    waypointNameInput >>
    /\ UNCHANGED busVars
    /\ UNCHANGED storeVars
    /\ UNCHANGED simVars
    /\ UNCHANGED wakeVars

\* Time passes; the clock is read 1 ms before and at every multiple of
\* TIME_MIN_DIFERENCE.
LegacyTick ==
    \E d \in {IF now % TIME_MIN_DIFERENCE = 0 THEN TIME_MIN_DIFERENCE - 1 ELSE 1} :
        /\ now + d <= TIME_MIN_DIFERENCE * (1 + MaxLegacySpan)
        /\ LegacyBecomes([Legacy EXCEPT !.now = now + d], "tick")

LegacyStartTracking ==
    /\ Cardinality(liveWatches) < MaxWatches
    /\ \E id \in (1..MaxWatches) \ liveWatches :
         LegacyBecomes(legacyStartTracking(Legacy, id), "startTracking")

LegacyStopTracking ==
    \E l \in {Legacy} : LegacyBecomes(legacyStopTracking(l), "stopTracking")

LegacyFix ==
    /\ liveWatches # {}
    /\ \E position \in LegacyPositions :
         LegacyBecomes(onPosition(Legacy, position), "watchPosition")

SavePath ==
    /\ Len(routes) < MaxSaved
    /\ LegacyBecomes(savePath(Legacy), "savePath")

LegacyPageLoad ==
    \E l \in {Legacy} :
        \E index \in 0..Len(routes) : LegacyBecomes(checkParamId(l, index), "checkParamId")

LegacyNext ==
    \/ LegacyTick
    \/ LegacyStartTracking
    \/ LegacyStopTracking
    \/ LegacyFix
    \/ SavePath
    \/ LegacyPageLoad

LegacySpec == LegacyInit /\ [][LegacyNext]_vars


\* ----------------------------------------------------- core/StorageService
\* The ids of routes: a number or a string, each with the text toString gives.
StoreIds ==
    { [type |-> "number", text |-> "1"],
      [type |-> "string", text |-> "1"],
      [type |-> "number", text |-> "2"] }

toString(id) == id.text

\* The routes passed to save and the fields passed to update.
RouteData == [id : StoreIds, name : {"a"}]

Updates == { [name |-> "b"] }

\* The service at the start of a call: its item, the events it has emitted,
\* the messages it has logged and the value it returns.
Store == [storage |-> storage, emitted |-> << >>, errors |-> << >>, result |-> FALSE]

\* localStorage.setItem(key, text)
setItem(st, text) == [st EXCEPT !.storage = text]

\* getAll(): the parsed item, [] when there is none or its text is not JSON.
getAll(st) ==
    IF st.storage.item = "null" THEN [routes |-> << >>, st |-> st]
    ELSE IF st.storage.item = "json"
         THEN [routes |-> JSONparse(st.storage), st |-> st]
         ELSE [routes |-> << >>, st |-> consoleError(st, "Error reading from storage:")]

\* save(route) putting the new route first.
save_first(st, route, quotaExceeded) ==
    LET got == getAll(st)
        all == << route >> \o got.routes
    IN  IF quotaExceeded
        THEN [consoleError(got.st, "Error saving to storage:") EXCEPT !.result = FALSE]
        ELSE [emit(setItem(got.st, JSONstringify(all)), "route:saved")
                 EXCEPT !.result = TRUE]

\* save(route): quotaExceeded is localStorage.setItem throwing.
save(st, route, quotaExceeded) ==
    LET got == getAll(st)
        all == Append(got.routes, route)
    IN  IF quotaExceeded
        THEN [consoleError(got.st, "Error saving to storage:") EXCEPT !.result = FALSE]
        ELSE [emit(setItem(got.st, JSONstringify(all)), "route:saved")
                 EXCEPT !.result = TRUE]

\* getById(id): the first route whose id is the value or has the text of id,
\* null (NoRoute) when there is none.
getById(st, id) ==
    LET all == getAll(st).routes
        found(r) == r.id = id \/ toString(r.id) = toString(id)
        hits == SelectSeq(all, found)
    IN  IF hits = << >> THEN NoRoute ELSE hits[1]

\* routes.findIndex(r => r.id === id), 0 for -1
findIndex(all, id) ==
    IF \E i \in 1..Len(all) : all[i].id = id
    THEN CHOOSE i \in 1..Len(all) :
             /\ all[i].id = id
             /\ \A j \in 1..(i - 1) : all[j].id # id
    ELSE 0

\* { ...route, ...updates }
spread(route, updates) ==
    [k \in DOMAIN route \cup DOMAIN updates |->
        IF k \in DOMAIN updates THEN updates[k] ELSE route[k]]

\* update(id, updates)
update(st, id, updates, quotaExceeded) ==
    LET got == getAll(st)
        index == findIndex(got.routes, id)
        all == [got.routes EXCEPT ![index] = spread(@, updates)]
    IN  IF index = 0 THEN [got.st EXCEPT !.result = FALSE]
        ELSE IF quotaExceeded
        THEN [consoleError(got.st, "Error updating storage:") EXCEPT !.result = FALSE]
        ELSE [emit(setItem(got.st, JSONstringify(all)), "route:updated")
                 EXCEPT !.result = TRUE]

\* routes.filter(r => r.id !== id && r.id.toString() !== id.toString())
filtered(all, id) ==
    LET keep(r) == r.id # id /\ toString(r.id) # toString(id)
    IN  SelectSeq(all, keep)

\* delete(id) writing and announcing whether or not a route was removed.
delete_alwaysWrites(st, id, quotaExceeded) ==
    LET got == getAll(st)
        rest == filtered(got.routes, id)
    IN  IF quotaExceeded
        THEN [consoleError(got.st, "Error deleting from storage:") EXCEPT !.result = FALSE]
        ELSE [emit(setItem(got.st, JSONstringify(rest)), "route:deleted")
                 EXCEPT !.result = TRUE]

\* delete(id)
delete(st, id, quotaExceeded) ==
    LET got == getAll(st)
        rest == filtered(got.routes, id)
    IN  IF Len(rest) = Len(got.routes) THEN [got.st EXCEPT !.result = FALSE]
        ELSE IF quotaExceeded
        THEN [consoleError(got.st, "Error deleting from storage:") EXCEPT !.result = FALSE]
        ELSE [emit(setItem(got.st, JSONstringify(rest)), "route:deleted")
                 EXCEPT !.result = TRUE]

\* A StorageService on a localStorage whose item is absent or is not JSON.
StoreInit ==
    /\ now = 1
    /\ simulationMode = FALSE
    /\ geoSupported = TRUE
    /\ storage \in {NoItem, Garbage}
    /\ wakeSupported = TRUE
    /\ ConstructedObjects

StoreBecomes(st, op, args) ==
    /\ storage' = st.storage
    /\ storeArgs' = args
    /\ storeResult' = st.result
    /\ emitted' = st.emitted
    /\ errors' = st.errors
    /\ uncaught' = FALSE
    /\ lastOp' = op
    /\ UNCHANGED pageVars
    /\ UNCHANGED busVars
    /\ UNCHANGED legacyVars
    /\ UNCHANGED simVars
    /\ UNCHANGED wakeVars

StoreSave ==
    /\ Len(getAll(Store).routes) < MaxStored
    /\ \E route \in RouteData, quotaExceeded \in BOOLEAN :
         StoreBecomes(save(Store, route, quotaExceeded), "save", << route >>)

StoreUpdate ==
    \E st \in {Store} :
        \E id \in StoreIds, updates \in Updates, quotaExceeded \in BOOLEAN :
            StoreBecomes(update(st, id, updates, quotaExceeded), "update", << id, updates >>)

StoreDelete ==
    \E st \in {Store} :
        \E id \in StoreIds, quotaExceeded \in BOOLEAN :
            StoreBecomes(delete(st, id, quotaExceeded), "delete", << id >>)

StoreNext ==
    \/ StoreSave
    \/ StoreUpdate
    \/ StoreDelete

StoreSpec == StoreInit /\ [][StoreNext]_vars

\* -------------------------------------------------------- core/GeoSimulator
\* PACE_TRANSITIONS[pace]: the paces that can follow a pace.
PACE_TRANSITIONS(pace) ==
    CASE pace = "walking" -> << "walking", "walking", "jogging", "resting" >>
      [] pace = "jogging" -> << "jogging", "walking", "running", "jogging" >>
      [] pace = "running" -> << "running", "jogging", "jogging", "running" >>
      [] pace = "resting" -> << "walking", "walking", "resting", "jogging" >>

\* The values of Math.floor(Math.random() * transitions.length).
RandomIndexes == 0..(Len(PACE_TRANSITIONS("walking")) - 1)

\* The fields of the simulator and its timers at the start of a call.  The
\* position, direction and speed of the random walk are not modelled.
Sim ==
    [ intervalId |-> intervalId, liveTimers |-> liveTimers,
      timersCreated |-> timersCreated, currentPace |-> currentPace,
      dynamicPace |-> dynamicPace, delivered |-> 0, restarted |-> restarted,
      uncaught |-> FALSE ]

\* #selectNewPace() drawing from every pace instead of the transitions of
\* the current one.
selectNewPace_anyPace(g, r) ==
    [g EXCEPT !.currentPace = << "walking", "jogging", "running", "resting" >>[r + 1]]

\* #selectNewPace(): r is Math.floor(Math.random() * transitions.length).
selectNewPace(g, r) ==
    LET transitions == PACE_TRANSITIONS(g.currentPace)
        nextPace == transitions[r + 1]
    IN  [g EXCEPT !.currentPace = nextPace]

\* callback(this.#createPositionObject()): throws is the callback throwing.
callback(g, throws) == [g EXCEPT !.delivered = @ + 1, !.uncaught = throws]

\* setInterval(...): a timer with an id not used before.
setInterval(g) ==
    [g EXCEPT !.timersCreated = @ + 1, !.liveTimers = @ \cup {g.timersCreated + 1}]

\* clearInterval(id)
clearInterval(g, id) == [g EXCEPT !.liveTimers = @ \ {id}]

\* stop() forgetting the interval without clearing it.
stop_keepsInterval(g) == [g EXCEPT !.intervalId = 0]

\* stop()
stop(g) ==
    IF g.intervalId # 0
    THEN [clearInterval(g, g.intervalId) EXCEPT !.intervalId = 0]
    ELSE g

\* isRunning()
isRunning(g) == g.intervalId # 0

\* start(callback) without the stop of the interval that is set.
start_noStop(g, r, throws) ==
    LET g1 == [g EXCEPT !.restarted = g.intervalId # 0]
        g2 == IF g1.dynamicPace THEN selectNewPace(g1, r) ELSE g1
        g3 == callback(g2, throws)
    IN  IF g3.uncaught THEN g3
        ELSE [setInterval(g3) EXCEPT !.intervalId = g3.timersCreated + 1]

\* start(callback): the first position is delivered before the interval is
\* set, so a callback that throws leaves the simulator stopped.
start(g, r, throws) ==
    LET g1 == IF g.intervalId # 0
              THEN [stop(g) EXCEPT !.restarted = TRUE]
              ELSE [g EXCEPT !.restarted = FALSE]
        g2 == IF g1.dynamicPace THEN selectNewPace(g1, r) ELSE g1
        g3 == callback(g2, throws)
    IN  IF g3.uncaught THEN g3
        ELSE [setInterval(g3) EXCEPT !.intervalId = g3.timersCreated + 1]

\* #updatePosition(): expires is #paceTimeRemaining reaching 0.
updatePosition(g, expires, r) ==
    IF g.dynamicPace /\ expires THEN selectNewPace(g, r) ELSE g

\* The function passed to setInterval.
onInterval(g, expires, r, throws) ==
    callback(updatePosition(g, expires, r), throws)

\* setSpeed(metersPerSecond)
setSpeed(g) == [g EXCEPT !.dynamicPace = FALSE]

\* setDynamicPace(enabled)
setDynamicPace(g, enabled, r) ==
    LET g1 == [g EXCEPT !.dynamicPace = enabled]
    IN  IF enabled THEN selectNewPace(g1, r) ELSE g1

\* new GeoSimulator()
SimInit ==
    /\ Init
    /\ simulationMode = FALSE
    /\ geoSupported = TRUE

SimBecomes(g, op) ==
    /\ intervalId' = g.intervalId
    /\ liveTimers' = g.liveTimers
    /\ timersCreated' = g.timersCreated
    /\ currentPace' = g.currentPace
    /\ dynamicPace' = g.dynamicPace
    /\ delivered' = g.delivered
    /\ restarted' = g.restarted
    /\ uncaught' = g.uncaught
    /\ lastOp' = op
    /\ emitted' = << >>
    /\ errors' = << >>
    /\ UNCHANGED pageVars
    /\ UNCHANGED busVars
    /\ UNCHANGED legacyVars
    /\ UNCHANGED storeVars
    /\ UNCHANGED wakeVars

SimStart ==
    /\ timersCreated < MaxTimers
    /\ \E r \in RandomIndexes, throws \in BOOLEAN :
         SimBecomes(start(Sim, r, throws), "start")

SimStop ==
    \E g \in {Sim} : SimBecomes(stop(g), "stop")

\* An interval that was not cleared fires.
SimInterval ==
    /\ liveTimers # {}
    /\ \E expires \in BOOLEAN, r \in RandomIndexes,
          throws \in BOOLEAN :
         SimBecomes(onInterval(Sim, expires, r, throws), "interval")

SimSetSpeed ==
    \E g \in {Sim} : SimBecomes(setSpeed(g), "setSpeed")

SimSetDynamicPace ==
    \E g \in {Sim} :
        \E enabled \in BOOLEAN, r \in RandomIndexes :
            SimBecomes(setDynamicPace(g, enabled, r), "setDynamicPace")

SimNext ==
    \/ SimStart
    \/ SimStop
    \/ SimInterval
    \/ SimSetSpeed
    \/ SimSetDynamicPace

SimSpec == SimInit /\ [][SimNext]_vars

\* ------------------------------------------------------- SourceSpec: actions
\* The two position sources side by side: a GeoSimulator and a
\* GeoLocationService whose events the controller is subscribed to.
GeoStartWatching ==
    \E s \in {Begin(Cur, "startWatching")} : Becomes(startWatching(s))

GeoStopWatching ==
    \E s \in {Begin(Cur, "stopWatching")} :
        \E emitEvent \in BOOLEAN : Becomes(stopWatching(s, emitEvent))

SourceNext ==
    \/ SimNext
    \/ GeoStartWatching
    \/ GeoStopWatching
    \/ GpsFix
    \/ GpsError

SourceSpec == SimInit /\ [][SourceNext]_vars

\* ------------------------------------------------------ core/WakeLockService
\* The service, the browser's sentinels and the promises in flight at the
\* start of a call; emitted collects the events the call publishes.
Wake ==
    [ supported |-> wakeSupported, wakeLock |-> wakeLock,
      isActive |-> wakeIsActive, isBackground |-> isBackground,
      heldLocks |-> heldLocks, sentinels |-> sentinels,
      pendingRequests |-> pendingRequests, pendingReleases |-> pendingReleases,
      emitted |-> << >> ]

\* request() up to `await navigator.wakeLock.request("screen")`.
request(w) ==
    IF ~w.supported
    THEN [w EXCEPT !.emitted = Append(@, "wakelock:unsupported")]
    ELSE [w EXCEPT !.pendingRequests = @ + 1]

\* request() after the await, the promise fulfilled with a new sentinel.
requestFulfilled(w) ==
    [w EXCEPT !.pendingRequests = @ - 1,
              !.sentinels = @ + 1,
              !.heldLocks = @ \cup {w.sentinels + 1},
              !.wakeLock = w.sentinels + 1,
              !.isActive = TRUE,
              !.emitted = Append(@, "wakelock:acquired")]

\* request() after the await, the promise rejected: the catch block.
requestRejected(w) ==
    [w EXCEPT !.pendingRequests = @ - 1,
              !.emitted = Append(@, "wakelock:error")]

\* The "release" listener request() puts on every sentinel.
onRelease(w) ==
    [w EXCEPT !.isActive = FALSE, !.emitted = Append(@, "wakelock:released")]

\* The browser releases the sentinel and fires its release event, once.
sentinelRelease(w, id) ==
    IF id \in w.heldLocks
    THEN onRelease([w EXCEPT !.heldLocks = @ \ {id}])
    ELSE w

\* release() up to the end of `await this.#wakeLock.release()`.
release(w) ==
    IF w.wakeLock # 0
    THEN [sentinelRelease(w, w.wakeLock) EXCEPT !.pendingReleases = @ + 1]
    ELSE w

\* release() after the await.
releaseReturned(w) ==
    [w EXCEPT !.pendingReleases = @ - 1, !.wakeLock = 0, !.isActive = FALSE]

\* #visibilityHandler with document.visibilityState hidden or visible.
visibilityHandler(w, hidden) ==
    IF hidden
    THEN [w EXCEPT !.isBackground = TRUE, !.emitted = Append(@, "app:background")]
    ELSE LET v == [w EXCEPT !.isBackground = FALSE,
                            !.emitted = Append(@, "app:foreground")]
         IN  IF v.isActive /\ v.wakeLock = 0 THEN request(v) ELSE v

\* The browser releases every screen lock of a document that becomes hidden.
RECURSIVE releaseAll(_, _)
releaseAll(w, ids) ==
    IF ids = {} THEN w
    ELSE LET id == CHOOSE i \in ids : \A j \in ids : i <= j
         IN  releaseAll(sentinelRelease(w, id), ids \ {id})

\* The asynchronous ends of #onTrackingStarted and #onTrackingStopped for the
\* events an operation of the controller emitted, in the order of the emits:
\* `await this.#wakeLockService.request()` and `await ....release()`.
RECURSIVE afterEvents(_, _, _)
afterEvents(w, log, i) ==
    IF i > Len(log) THEN w
    ELSE afterEvents(IF log[i] = "tracking:started" THEN request(w)
                     ELSE IF log[i] = "tracking:stopped" THEN release(w)
                     ELSE w,
                     log, i + 1)

\* --------------------------------------------------------- WakeSpec: actions
\* A page over the GPS watch, in a browser with or without the Wake Lock API.
WakeInit ==
    /\ now = 1
    /\ storage = NoItem
    /\ wakeSupported \in BOOLEAN
    /\ ConstructedObjects
    /\ simulationMode = FALSE
    /\ geoSupported = TRUE

\* The page is left as t by the controller and the service as w.
WakeBecomes(t, w) ==
    /\ PageBecomes([t EXCEPT !.emitted = t.emitted \o w.emitted])
    /\ wakeSupported' = w.supported
    /\ wakeLock' = w.wakeLock
    /\ wakeIsActive' = w.isActive
    /\ isBackground' = w.isBackground
    /\ heldLocks' = w.heldLocks
    /\ sentinels' = w.sentinels
    /\ pendingRequests' = w.pendingRequests
    /\ pendingReleases' = w.pendingReleases

\* An operation of the controller with the calls its handlers make on the service.
Handled(t) == WakeBecomes(t, afterEvents(Wake, t.emitted, 1))

\* The browser can still hand out a sentinel.
HasSentinels == sentinels + pendingRequests < MaxSentinels

WakeStartTracking ==
    /\ HasSentinels
    /\ \E pos \in Positions : Handled(startTracking(Begin(Cur, "startTracking"), pos))

WakeStopTracking ==
    /\ pendingReleases < MaxReleases
    /\ \E s \in {Begin(Cur, "stopTracking")} : Handled(stopTracking(s))

WakePauseTracking ==
    \E s \in {Begin(Cur, "pauseTracking")} : Handled(pauseTracking(s))

WakeResumeTracking ==
    /\ HasSentinels
    /\ \E pos \in Positions : Handled(resumeTracking(Begin(Cur, "resumeTracking"), pos))

\* navigator.wakeLock.request resolves: only for a visible document.
RequestFulfilled ==
    /\ pendingRequests > 0
    /\ ~isBackground
    /\ WakeBecomes(Begin(Cur, "requestFulfilled"), requestFulfilled(Wake))

\* navigator.wakeLock.request rejects.
RequestRejected ==
    /\ pendingRequests > 0
    /\ WakeBecomes(Begin(Cur, "requestRejected"), requestRejected(Wake))

\* sentinel.release() resolves.
ReleaseReturned ==
    /\ pendingReleases > 0
    /\ WakeBecomes(Begin(Cur, "releaseReturned"), releaseReturned(Wake))

\* visibilitychange to hidden: the browser releases the locks of the page.
PageHidden ==
    /\ ~isBackground
    /\ WakeBecomes(Begin(Cur, "hidden"),
                   visibilityHandler(releaseAll(Wake, heldLocks), TRUE))

\* visibilitychange to visible.
PageVisible ==
    /\ isBackground
    /\ WakeBecomes(Begin(Cur, "visible"), visibilityHandler(Wake, FALSE))

WakeNext ==
    \/ WakeStartTracking
    \/ WakeStopTracking
    \/ WakePauseTracking
    \/ WakeResumeTracking
    \/ RequestFulfilled
    \/ RequestRejected
    \/ ReleaseReturned
    \/ PageHidden
    \/ PageVisible

WakeSpec == WakeInit /\ [][WakeNext]_vars

\* ------------------------------------------- the waypoint modal of one page
\* A page tracking over GPS, with the modal through which waypoints are added.
WayInit ==
    /\ Init
    /\ simulationMode = FALSE
    /\ geoSupported = TRUE

\* click on the waypoint button
ShowWaypointModal ==
    /\ waypointBtnDisplayed(Cur)
    /\ uuids < MaxUuids
    /\ Becomes(showWaypointModal(Begin(Cur, "showWaypointModal")))

\* click on the cancel button or the backdrop, or Escape in the name field
HideWaypointModal ==
    /\ waypointModal
    /\ Becomes(hideWaypointModal(Begin(Cur, "hideWaypointModal")))

\* The user types into the name field of the modal.
TypeWaypointName ==
    /\ waypointModal
    /\ \E name \in WaypointNames :
         Becomes([Begin(Cur, "typeWaypointName") EXCEPT !.waypointNameInput = name])

\* click on the save button of the modal, or Enter in the name field
WaypointSave ==
    /\ waypointModal
    /\ Becomes(saveWaypoint(Begin(Cur, "waypointSave")))

WayNext ==
    \/ SnapTick
    \/ StartTracking
    \/ StopTracking
    \/ PauseTracking
    \/ ResumeTracking
    \/ GpsFix
    \/ ShowWaypointModal
    \/ HideWaypointModal
    \/ TypeWaypointName
    \/ WaypointSave

WaySpec == WayInit /\ [][WayNext]_vars


\* ------------------------------------------------------------------ claims
Range(seq) == { seq[i] : i \in 1..Len(seq) }

\* The operations that deliver a position fix to the controller.
FixOps == {"gpsFix", "simulatorTick", "orphanTick"}

\* The operations that start a session.
StartOps == {"startTracking", "autoStartSimulation"}

\* Elapsed time as the session state machine defines it.
ElapsedOfSession ==
    pausedTimeAccumulated
    + (IF SessionState = "Active" THEN now - trackingStartTime ELSE 0)

\* C1: resume() performed while the session is Paused sets the active-segment
\* start to the current time and leaves pausedTimeAccumulated as the preceding
\* pause() left it, with the GPS watch as with the simulator.
C1_ResumeKeepsAccumulatedTime ==
    [][ (SessionState = "Paused" /\ lastOp' = "resumeTracking")
        => (trackingStartTime' = now /\ pausedTimeAccumulated' = pausedTimeAccumulated) ]_vars

\* C2: whenever a session that was started from Idle is Paused, its elapsed
\* time (pausedTimeAccumulated) is the sum of the durations of all its active
\* segments: T1+T2 after start, pause, resume, pause.
C2_ElapsedIsSumOfActiveSegments ==
    (SessionState = "Paused" /\ fromIdle) => pausedTimeAccumulated = activeTotal

\* C3: at every observation point the elapsed time of the session, as read by
\* the timer display when it refreshes, by the snapshot computation and by
\* Route.getElapsedTime(), equals pausedTimeAccumulated plus
\* (now - trackingStartTime) when Active and pausedTimeAccumulated alone
\* otherwise.
C3_ElapsedTimeFormula ==
    /\ lastOp = "timerTick" => elapsedTimeDisplay = ElapsedOfSession
    /\ currentRoute # NoRoute => elapsedMs(Cur) = ElapsedOfSession
    /\ currentRoute # NoRoute => getElapsedTime(currentRoute, now) = ElapsedOfSession

\* C4: stop() performed while the session is Active adds the duration of the
\* final active segment to pausedTimeAccumulated before the state becomes
\* Stopped.
C4_StopFoldsFinalSegment ==
    [][ (SessionState = "Active" /\ lastOp' = "stopTracking" /\ SessionState' = "Stopped")
        => pausedTimeAccumulated' = pausedTimeAccumulated + (now - trackingStartTime) ]_vars

\* C5: a position fix delivered after the session has been stopped is ignored:
\* the points of the session are unchanged and no point-added event is emitted.
C5_NoIngestionAfterStop ==
    [][ (SessionState = "Stopped" /\ lastOp' \in FixOps)
        => (currentRoute' = currentRoute /\ "route:point-added" \notin Range(emitted')) ]_vars

\* C6: a position fix delivered while the session is Idle, that is after the
\* route was created and before tracking:started, is rejected: no point-added
\* event precedes the tracking:started event of a session started from Idle.
C6_NoIngestionWhileIdle ==
    (lastOp \in StartOps /\ fromIdle)
    => ~ \E i, j \in 1..Len(emitted) :
            /\ i < j
            /\ emitted[i] = "route:point-added"
            /\ emitted[j] = "tracking:started"

\* C7: start() invoked when the session is Active, Paused or Stopped has no
\* effect on the session: state, points, waypoints and pausedTimeAccumulated
\* are unchanged.
C7_StartOnlyFromIdle ==
    [][ (SessionState \in {"Active", "Paused", "Stopped"} /\ lastOp' = "startTracking")
        => /\ currentRoute' = currentRoute
           /\ isTrackingActive' = isTrackingActive
           /\ isPaused' = isPaused
           /\ stopped' = stopped
           /\ pausedTimeAccumulated' = pausedTimeAccumulated ]_vars

\* C8: nothing is tracking initially, and Stopped is terminal: a session that
\* has been stopped is never Active or Paused again, whatever pause, resume,
\* togglePause, position fix or position-source event follows.
C8_StoppedIsTerminal ==
    /\ lastOp = "init" => (currentRoute = NoRoute /\ ~isTrackingActive /\ ~isPaused)
    /\ stopped => (currentRoute # NoRoute /\ ~isTrackingActive /\ ~isPaused)

C8_Witness ==
    /\ stopped
    /\ lastOp \in {"togglePause", "resumeTracking", "pauseTracking"} \cup FixOps

\* C9: pause() when the session is not Active and resume() when it is not
\* Paused change nothing: not the state, the segment start or the accumulated
\* time, no position source is started or stopped, no event is emitted.
C9_MisuseIsNoOp ==
    [][ ( \/ (lastOp' = "pauseTracking" /\ SessionState # "Active")
          \/ (lastOp' = "resumeTracking" /\ SessionState # "Paused") )
        => /\ UNCHANGED << currentRoute, isTrackingActive, isPaused, stopped,
                           trackingStartTime, pausedTimeAccumulated, timerInterval,
                           simulator, orphanTimers, watchId, geoIsTracking >>
           /\ emitted' = << >> ]_vars

C9_Witness ==
    \/ (lastOp = "pauseTracking" /\ SessionState = "Stopped" /\ pausedTimeAccumulated > 0)
    \/ (lastOp = "resumeTracking" /\ SessionState \in {"Idle", "Stopped"})

HasSnapshot == pendingRoute.item = "json"

\* The age a held snapshot has at time t.
SnapshotAge(t) == IF HasSnapshot THEN t - pendingRoute.value.savedAt ELSE 0

\* A page load has restored a session from the snapshot.
Restored == lastOp = "pageLoad" /\ currentRoute # NoRoute

\* C11: a page load that finds a snapshot whose age (now - savedAt) is 24
\* hours or more restores nothing: the page has no session and nothing is
\* tracking.  Every page load that restores a session found a snapshot whose
\* age was below 24 hours.
C11_ExpiredNeverRestored ==
    [][ lastOp' = "pageLoad" =>
          /\ (HasSnapshot /\ SnapshotAge(now') >= maxAge)
                => (currentRoute' = NoRoute /\ ~isTrackingActive' /\ ~watchId')
          /\ Restored' => (HasSnapshot /\ SnapshotAge(now') < maxAge) ]_vars

C11_Witness ==
    /\ lastOp = "pageLoad"
    /\ recovery = "expired"
    /\ currentRoute = NoRoute
    /\ pendingRoute = NoItem

\* C12: a page load whose recovery path (?resume=true) finds a snapshot of
\* age 24 hours or more leaves the slot empty, whatever the snapshot's points
\* list contains.
C12_ExpiredSnapshotDiscarded ==
    [][ (lastOp' = "pageLoad" /\ search'.resume /\ HasSnapshot
         /\ SnapshotAge(now') >= maxAge)
        => pendingRoute' = NoItem ]_vars

\* C13: the points and waypoints of a restored session equal the saved ones,
\* in order and content: each point with its saved lat, lng and timestamp,
\* each waypoint with its saved id, lat, lng, name and timestamp.
C13_RestoreReconstructsRoute ==
    [][ Restored' =>
          /\ currentRoute'.points = pendingRoute.value.points
          /\ currentRoute'.waypoints = pendingRoute.value.waypoints ]_vars

\* C14: immediately after a restore the session is Active, its
\* pausedTimeAccumulated is the elapsed time saved in the snapshot and its
\* active segment starts at the time of the restore.
C14_RestoreKeepsElapsedTime ==
    [][ Restored' =>
          /\ SessionState' = "Active"
          /\ pausedTimeAccumulated' = pendingRoute.value.elapsedTime
          /\ trackingStartTime' = now' ]_vars

\* The operations that write the snapshot.
SnapshotOps == {"handleExitSave", "visibilityChange", "beforeUnload"}

\* saveRoute() has stored the current route in permanent storage.
SavedToStorage ==
    /\ lastOp = "saveRoute"
    /\ errors = << >>
    /\ currentRoute # NoRoute
    /\ IF currentRoute = NoRoute THEN FALSE ELSE getPointCount(currentRoute) > 0

sessionVars ==
    << currentRoute, isTrackingActive, isPaused, stopped, trackingStartTime,
       pausedTimeAccumulated, timerInterval, watchId, geoIsTracking >>

\* C16: no failure of the snapshot persistence escapes.  #loadPendingRoute
\* returns null when the slot is absent or holds text that is not JSON, and a
\* page load that reads such a slot constructs an idle page; a snapshot write
\* on which localStorage throws returns normally and leaves the session and
\* the slot as they were.
C16_SnapshotFailuresContained ==
    [][ /\ ~uncaught'
        /\ pendingRoute' \in {NoItem, Garbage} => loadPendingRoute(Cur)' = NoItem
        /\ (lastOp' \in SnapshotOps /\ errors' # << >>)
            => UNCHANGED << sessionVars, pendingRoute >>
        /\ (lastOp' = "pageLoad" /\ search'.resume /\ pendingRoute \in {NoItem, Garbage})
            => /\ currentRoute' = NoRoute
               /\ ~isTrackingActive' /\ ~isPaused'
               /\ pendingRoute' = pendingRoute ]_vars

C16_Witness ==
    /\ lastOp \in SnapshotOps
    /\ errors = << "Error saving pending route:" >>
    /\ SessionState = "Active"
    /\ pendingRoute = Garbage
    /\ loadPendingRoute(Cur) = NoItem

\* ---------------------------------------------------- claims: the EventBus
\* The callbacks events[event] holds, as the invocations emit owes them.
Owed(event) ==
    [ i \in 1..Len(events[event].callbacks) |->
        [ event |-> event,
          callback |-> events[event].callbacks[i].callback,
          wrapper |-> events[event].callbacks[i].wrapper ] ]

\* The event of the emit that has just run.
Published == emitted[1]

\* C17: emit(event) invokes the handlers subscribed to event when it is
\* called, once per subscription and in subscription order, and invokes no
\* handler that is subscribed to another event only.
C17_EmitInvokesSubscribersInOrder ==
    [][ lastOp' = "emit" =>
          /\ Len(invoked') = Len(events[Published'].callbacks)
          /\ \A i \in 1..Len(invoked') : invoked'[i] = Owed(Published')[i] ]_vars

C17_Witness ==
    /\ lastOp = "emit"
    /\ Len(invoked) = 2
    /\ invoked[1].wrapper > 0
    /\ ~invoked[1].callback.throws
    /\ invoked[2].callback # invoked[1].callback
    /\ \E other \in Topics \ {Published} : Len(events[other].callbacks) > 0

\* C18: when a handler throws during emit(event), every other handler
\* subscribed to event is still invoked, the exception is logged and it does
\* not leave emit.
C18_ThrowingHandlerIsContained ==
    [][ (lastOp' = "emit"
         /\ \E j \in 1..Len(events[Published'].callbacks) :
                events[Published'].callbacks[j].callback.throws)
        => /\ ~uncaught'
           /\ \A i \in 1..Len(events[Published'].callbacks) :
                 \E k \in 1..Len(invoked') : invoked'[k] = Owed(Published')[i]
           /\ errors' # << >> ]_vars

C18_Witness ==
    /\ lastOp = "emit"
    /\ ~uncaught
    /\ Len(invoked) = 2
    /\ invoked[1].callback.throws
    /\ ~invoked[2].callback.throws
    /\ errors = << "Error in event handler" >>

\* C19: a handler registered with once is no longer subscribed after the
\* first emit that invokes it, whether it returned or threw, and it is never
\* invoked a second time.
C19_OnceHandlerRunsOnce ==
    [][ lastOp' = "emit" =>
          \A k \in 1..Len(invoked') :
              invoked'[k].wrapper > 0 =>
                /\ invoked'[k].wrapper \notin onceCalled
                /\ \A i \in 1..Len(events'[Published'].callbacks) :
                      events'[Published'].callbacks[i].wrapper # invoked'[k].wrapper ]_vars

\* ------------------------------------------------ claims: the legacy tracker
\* No two points of the path have the same (lat, lng).
NoDuplicatePoint(points) ==
    \A i, j \in 1..Len(points) :
        (points[i].lat = points[j].lat /\ points[i].lng = points[j].lng) => i = j

\* C20: in the legacy tracker a fix whose (lat, lng) equals that of a point
\* already in the path is rejected, the path being left as it was, and the
\* path never holds two points with the same (lat, lng).
C20_LegacyPathHasUniquePoints ==
    [][ /\ NoDuplicatePoint(path')
        /\ (lastOp' = "watchPosition" /\ pathSome(path, lastFix')) => path' = path ]_vars

C20_Witness ==
    /\ lastOp = "watchPosition"
    /\ Len(path) = 2
    /\ lastFix = path[1]
    /\ now - lastAddedPointTime >= TIME_MIN_DIFERENCE

\* C21: in the legacy tracker a fix delivered less than TIME_MIN_DIFERENCE
\* after the last accepted one is rejected; an accepted fix comes at least
\* TIME_MIN_DIFERENCE after the last accepted one and becomes the last
\* accepted one; stopping and starting the tracking keep the time of the
\* last accepted fix.
C21_AcceptedFixesAreSpacedInTime ==
    [][ /\ (lastOp' = "watchPosition" /\ now' - lastAddedPointTime < TIME_MIN_DIFERENCE)
           => path' = path
        /\ (lastOp' = "watchPosition" /\ path' # path)
           => /\ now' - lastAddedPointTime >= TIME_MIN_DIFERENCE
              /\ lastAddedPointTime' = now'
        /\ lastOp' \in {"startTracking", "stopTracking", "tick", "savePath"}
           => lastAddedPointTime' = lastAddedPointTime ]_vars

C21_Witness ==
    /\ lastOp = "watchPosition"
    /\ path # << >>
    /\ ~pathSome(path, lastFix)
    /\ now - lastAddedPointTime = TIME_MIN_DIFERENCE - 1

\* C22: in the legacy tracker a rejected fix, one whose coordinate is in the
\* path already or that comes less than TIME_MIN_DIFERENCE after the last
\* accepted fix, leaves the path, the number of its points, the distance and
\* the time of the last accepted fix as they were.
C22_RejectedFixChangesNothing ==
    [][ ( /\ lastOp' = "watchPosition"
          /\ \/ pathSome(path, lastFix')
             \/ now' - lastAddedPointTime < TIME_MIN_DIFERENCE )
        => /\ path' = path
           /\ Len(path') = Len(path)
           /\ distance' = distance
           /\ lastAddedPointTime' = lastAddedPointTime ]_vars

C22_Witness ==
    /\ lastOp = "watchPosition"
    /\ distance > 0
    /\ pathSome(path, lastFix)
    /\ now - lastAddedPointTime >= TIME_MIN_DIFERENCE

\* The points of the controller's route, none when it has no route.
PointsOf(route) == IF route = NoRoute THEN << >> ELSE route.points

\* after is before, or before with one point appended at the end.
AppendsAtMostOne(before, after) ==
    \/ after = before
    \/ /\ Len(after) = Len(before) + 1
       /\ SubSeq(after, 1, Len(before)) = before

\* C23: while a session is running (Active or Paused) every operation leaves
\* its points as they were or appends exactly one point at the end; no point
\* recorded is removed, reordered or modified.
C23_PointsAppendOnly ==
    [][ (SessionState = "Active" \/ SessionState = "Paused")
        => /\ currentRoute' # NoRoute
           /\ AppendsAtMostOne(PointsOf(currentRoute), PointsOf(currentRoute')) ]_vars

\* The waypoints of the controller's route, none when it has no route.
WaypointsOf(route) == IF route = NoRoute THEN << >> ELSE route.waypoints

\* C24: a request to save a waypoint with a name, on a route without points,
\* is rejected and adds no waypoint; on a route with at least one point it
\* appends exactly one waypoint, whose latitude and longitude are those of
\* the last recorded point.
C24_WaypointAtLastPoint ==
    [][ ( /\ lastOp' = "waypointSave"
          /\ trim(waypointNameInput) # ""
          /\ currentRoute # NoRoute )
        => IF PointsOf(currentRoute) = << >>
           THEN currentRoute' = currentRoute
           ELSE LET before == WaypointsOf(currentRoute)
                    after == WaypointsOf(currentRoute')
                    lastPoint == currentRoute.points[Len(currentRoute.points)]
                IN  /\ Len(after) = Len(before) + 1
                    /\ SubSeq(after, 1, Len(before)) = before
                    /\ after[Len(after)].lat = lastPoint.lat
                    /\ after[Len(after)].lng = lastPoint.lng
                    /\ PointsOf(currentRoute') = PointsOf(currentRoute) ]_vars

C24_Witness ==
    /\ lastOp = "waypointSave"
    /\ currentRoute # NoRoute
    /\ PointsOf(currentRoute) = << >>
    /\ WaypointsOf(currentRoute) = << >>
    /\ ~waypointModal

\* C25: a waypoint is added to a route only while its session is Active or
\* Paused; a request to save a waypoint on a session that is Idle or Stopped
\* adds nothing.
C25_WaypointOnlyWhileTracking ==
    [][ Len(WaypointsOf(currentRoute')) > Len(WaypointsOf(currentRoute))
        => (SessionState = "Active" \/ SessionState = "Paused") ]_vars

RECURSIVE SumOfLegs(_)
SumOfLegs(points) ==
    IF Len(points) < 2 THEN 0
    ELSE SumOfLegs(SubSeq(points, 1, Len(points) - 1))
         + calculateDistance(points[Len(points) - 1].lat, points[Len(points) - 1].lng,
                             points[Len(points)].lat, points[Len(points)].lng)

StoredRoutes == getAll(Store).routes

\* The item of the service is absent or holds the JSON text of an array.
ValidStorage == storage.item \in {"null", "json"}

\* C28: on a valid storage a successful save(route) appends the route to
\* what getAll() returns and leaves the routes saved before as they were and
\* in their order; getAll() returns nothing before the first save.
C28_SaveAppendsInOrder ==
    /\ [](storage = NoItem => StoredRoutes = << >>)
    /\ [][ (lastOp' = "save" /\ storeResult' /\ ValidStorage)
           => StoredRoutes' = Append(StoredRoutes, storeArgs'[1]) ]_vars

C28_Witness ==
    /\ lastOp = "save"
    /\ storeResult
    /\ Len(StoredRoutes) = 2
    /\ StoredRoutes[1] # StoredRoutes[2]
    /\ StoredRoutes[2] = storeArgs[1]

\* No stored route has the id, compared as a value or as text.
NoStoredRouteHas(id) ==
    \A i \in 1..Len(StoredRoutes) :
        StoredRoutes[i].id # id /\ toString(StoredRoutes[i].id) # toString(id)

\* C29: delete(id) and update(id, updates) with an id that no stored route
\* has return false, leave the stored item as it was and emit neither
\* route:deleted nor route:updated.
C29_NoMatchChangesNothing ==
    [][ (lastOp' \in {"delete", "update"} /\ NoStoredRouteHas(storeArgs'[1]))
        => /\ storeResult' = FALSE
           /\ storage' = storage
           /\ emitted' = << >> ]_vars

C29_Witness ==
    /\ lastOp = "delete"
    /\ StoredRoutes # << >>
    /\ NoStoredRouteHas(storeArgs[1])
    /\ storeResult = FALSE
    /\ errors = << >>

\* C30: a GeoSimulator never has more than one live interval; isRunning() is
\* true exactly while it has one; start() on a running simulator leaves only
\* the interval it creates; after stop() no interval is live, so no callback
\* follows.
C30_AtMostOneLiveTimer ==
    /\ [](Cardinality(liveTimers) <= 1)
    /\ [](isRunning(Sim) <=> liveTimers # {})
    /\ [][ /\ (lastOp' = "stop" => liveTimers' = {})
           /\ (lastOp' = "start" /\ isRunning(Sim)')
              => liveTimers' = {intervalId'} /\ intervalId' \notin liveTimers ]_vars

C30_Witness ==
    /\ lastOp = "start"
    /\ restarted
    /\ isRunning(Sim)
    /\ liveTimers = {intervalId}

\* C40: whenever getById(id) finds a route, update(id, updates) and
\* delete(id) that write without a storage failure return true: update
\* modifies the route getById found and delete removes it.
C40_UpdateDeleteMatchGetById ==
    [][ ( /\ lastOp' \in {"update", "delete"}
          /\ getById(Store, storeArgs'[1]) # NoRoute
          /\ errors' = << >> )
        => /\ storeResult' = TRUE
           /\ (lastOp' = "delete")
              => getById(setItem(Store, storage'), storeArgs'[1]) = NoRoute ]_vars

\* ------------------------------------------- claims: the EventBus, continued
\* C38: the unsubscribe function that on returned removes one subscription:
\* the event's listener count goes down by exactly one and the subscriptions
\* of the other events are left as they were.
C38_UnsubscribeRemovesOne ==
    [][ lastOp' = "unsubscribe" =>
          \E event \in Topics :
              /\ Len(events'[event].callbacks) = Len(events[event].callbacks) - 1
              /\ \A other \in Topics \ {event} : events'[other] = events[other] ]_vars

\* The handlers of the event call on or off while they are invoked.
Reentrant(event) ==
    \E j \in 1..Len(events[event].callbacks) :
        events[event].callbacks[j].callback.fn \in {"sub", "unsub"}

\* The number of subscriptions of the listener among the invocations.
TimesInvoked(calls, listener) ==
    Cardinality({ k \in 1..Len(calls) :
                    /\ calls[k].callback = listener.callback
                    /\ calls[k].wrapper = listener.wrapper })

\* The number of times events[event] holds the listener.
TimesSubscribed(event, listener) ==
    Cardinality({ i \in 1..Len(events[event].callbacks) :
                    events[event].callbacks[i] = listener })

\* C39: when a handler subscribes or unsubscribes during an emit, that emit
\* invokes every subscription held when it began exactly once and no other,
\* and a handler subscribed during the emit is held for the next emit.
C39_EmitUndisturbedBySubscriptions ==
    [][ (lastOp' = "emit" /\ Reentrant(Published'))
        => /\ Len(invoked') = Len(events[Published'].callbacks)
           /\ \A cb \in Callbacks, k \in 0..MaxOnce :
                 TimesInvoked(invoked', Listener(cb, k))
                     = TimesSubscribed(Published', Listener(cb, k))
           /\ (\E j \in 1..Len(events[Published'].callbacks) :
                   /\ events[Published'].callbacks[j].callback.fn = "sub"
                   /\ \A i \in j..Len(events[Published'].callbacks) :
                         events[Published'].callbacks[i].callback.fn # "unsub")
               => \E i \in 1..Len(events'[Published'].callbacks) :
                      events'[Published'].callbacks[i]
                          = Listener([fn |-> "g", throws |-> FALSE], 0) ]_vars

\* An emit whose first handler subscribed g: g was not invoked in it.
C39_Witness ==
    /\ lastOp = "emit"
    /\ Len(invoked) = 2
    /\ invoked[1].callback.fn = "sub"
    /\ invoked[2].callback.fn = "f"
    /\ Len(events[Published].callbacks) = 3
    /\ events[Published].callbacks[3].callback.fn = "g"

\* ------------------------------------------ claims: the simulator, continued
\* The changes of pace the transition table allows.
AllowedPaceChanges ==
    { << "walking", "jogging" >>, << "walking", "resting" >>,
      << "jogging", "walking" >>, << "jogging", "running" >>,
      << "running", "jogging" >>,
      << "resting", "walking" >>, << "resting", "jogging" >> }

\* C32: every change of the simulator's pace, by a tick, a start or
\* setDynamicPace, is one the transition table allows; the pace never goes
\* from walking to running in one change.
C32_PaceFollowsTransitions ==
    [][ currentPace' # currentPace
        => << currentPace, currentPace' >> \in AllowedPaceChanges ]_vars

\* A tick in dynamic-pace mode has taken the pace to running.
C32_Witness ==
    /\ lastOp = "interval"
    /\ dynamicPace
    /\ currentPace = "running"
    /\ delivered > 0

LiveSources ==
    (IF watchId THEN 1 ELSE 0) + (IF simulator = "running" THEN 1 ELSE 0)
        + orphanTimers

\* C33: at most one position source is live at any time; a startTracking
\* during a simulation leaves no interval of the earlier simulator running.
C33_AtMostOneLiveSource == LiveSources <= 1

\* C34: while the session is Paused or Stopped no position source is live:
\* the GPS watch is cleared and no simulator interval is running.
C34_NoSourceWhilePausedOrStopped ==
    (SessionState = "Paused" \/ SessionState = "Stopped") => LiveSources = 0

\* The number of times the event was emitted during the operation.
TimesEmitted(log, event) == Cardinality({ i \in 1..Len(log) : log[i] = event })

\* C35: tracking:started is emitted exactly once by a start that begins a
\* session and never by a resume; tracking:stopped is emitted exactly once by
\* the stop of a running or paused session, and never by a pause or by a
\* stop that finds no session running.
C35_StartedAndStoppedAlternate ==
    [][ /\ (lastOp' = "startTracking" /\ ~isTrackingActive /\ isTrackingActive')
            => TimesEmitted(emitted', "tracking:started") = 1
        /\ (lastOp' = "resumeTracking")
            => TimesEmitted(emitted', "tracking:started") = 0
        /\ (lastOp' = "pauseTracking")
            => TimesEmitted(emitted', "tracking:stopped") = 0
        /\ (lastOp' = "stopTracking")
            => TimesEmitted(emitted', "tracking:stopped")
                   = (IF isTrackingActive THEN 1 ELSE 0) ]_vars

\* ------------------------------------------------- claims: the wake lock
\* C36: once the session is Stopped and no request or release of the service
\* is still in flight, the browser holds no screen lock for the page and the
\* service does not report one, whatever the order in which the request
\* issued at the start and the stop were handled.
C36_NoWakeLockAfterStop ==
    (SessionState = "Stopped" /\ pendingRequests = 0 /\ pendingReleases = 0)
        => (heldLocks = {} /\ ~wakeIsActive)

\* The service holds a sentinel that the browser released on its own.
SystemReleased ==
    /\ wakeLock # 0
    /\ wakeLock \notin heldLocks
    /\ pendingReleases = 0
    /\ pendingRequests = 0

\* C37: when the page becomes visible after the browser released the lock
\* the service had acquired, the service requests the lock again.
C37_ReacquiredWhenVisible ==
    [][ (lastOp' = "visible" /\ SystemReleased)
        => pendingRequests' = pendingRequests + 1 ]_vars

====
